---- MODULE Spec2Model ----
(***************************************************************************)
(* EnvoyReader (custom_components/enphase_envoy_custom/envoy_reader.py):   *)
(* the poll cycle getData, model detection, the endpoint refreshes, the    *)
(* retrying transport and the Enlighten token life cycle, as a state       *)
(* machine.  One step is one stretch of a coroutine between two awaits:    *)
(* a GET or POST answered by the environment, a holdoff sleep, or the      *)
(* hand-over of a result or exception from a finished call to its caller.  *)
(***************************************************************************)
EXTENDS Integers, Sequences, FiniteSets, TLC

\* ------------------------------------------------------------------ bounds
MaxDepth == 3        \* nested _async_fetch_with_retry frames
MaxTime == 1         \* clock ticks
MaxRetries == 2      \* largest configured fetch_retries
MaxEpoch == 4        \* largest epoch second of an exp claim, buffer or clock
MaxPhases == 3       \* largest phaseCount of a meter
MaxHalves == 2       \* largest reading of a payload, in half units
MaxCentis == 203     \* largest number on a legacy page, in hundredths

\* --------------------------------------------------------------- constants
ENVOY_MODEL_S == "PC"
ENVOY_MODEL_C == "P"
ENVOY_MODEL_LEGACY == "P0"
NoModel == "None"
FETCH_RETRIES == 1

ENDPOINT_URL_PRODUCTION_JSON == "/production.json?details=1"
ENDPOINT_URL_PRODUCTION_V1 == "/api/v1/production"
ENDPOINT_URL_PRODUCTION_INVERTERS == "/api/v1/production/inverters"
ENDPOINT_URL_PRODUCTION == "/production"
ENDPOINT_URL_CHECK_JWT == "/auth/check_jwt"
ENDPOINT_URL_ENSEMBLE_INVENTORY == "/ivp/ensemble/inventory"
ENDPOINT_URL_HOME_JSON == "/home.json"
ENDPOINT_URL_HOME == "/home"
ENDPOINT_URL_INFO_XML == "/info"
ENDPOINT_URL_METERS == "/ivp/meters"
ENDPOINT_URL_METERS_REPORTS == "/ivp/meters/reports"
ENDPOINT_URL_METERS_READINGS == "/ivp/meters/readings"
URL_INFO_XML_SERIAL == "/info.xml"

\* the interval of the device-info and CT-configuration refreshes (3600 s by
\* default): one tick of the clock
info_refresh_buffer_seconds == 1
\* the margin by which a token counts as expired before its exp claim
token_refresh_buffer_seconds == 0
\* the lifetimes the cloud can give a token it issues, in ticks (0: a token
\* that is already expired when it arrives)
TokenLifetimes == {0, 1}

\* The snapshot attributes of the reader.
SnapshotAttrs ==
    { "endpoint_production_json_results", "endpoint_ensemble_json_results",
      "endpoint_home_json_results", "endpoint_production_v1_results",
      "endpoint_production_results", "endpoint_home_results",
      "endpoint_info_results", "endpoint_meters_json_results",
      "endpoint_meters_reports_json_results",
      "endpoint_meters_readings_json_results",
      "endpoint_production_inverters" }

\* ------------------------------------------------------------- responses
\* A response is its status code and the kind of body it carries; Python's
\* None (the transport's "absent" result) is a value of the same shape.
None == [status |-> 0, body |-> "None"]
Response(s, b) == [status |-> s, body |-> b]

\* The bodies a gateway can send with a 200, by URL.
Bodies(url) ==
    CASE url = ENDPOINT_URL_PRODUCTION_JSON ->
            {"production+consumption", "production", "not json"}
      [] url = ENDPOINT_URL_HOME_JSON -> {"enpower.grid_status", "no enpower"}
      [] url = ENDPOINT_URL_METERS -> {"[]", "eim: enabled/enabled", "eim: disabled/enabled"}
      [] url = URL_INFO_XML_SERIAL -> {"<sn>", "Envoy Serial Number:", "no serial", ""}
      [] OTHER -> {"data"}

\* What the gateway can answer to a GET: a response, or a failure of the
\* connection (httpx.TimeoutException, or another httpx.TransportError).
Answer(k, s, b, e) == [kind |-> k, status |-> s, body |-> b, exc |-> e]
GatewayAnswers(url) ==
    {Answer("resp", 200, b, "") : b \in Bodies(url)}
    \cup {Answer("resp", s, "", "") : s \in {401, 404, 500}}
    \cup {Answer("exc", 0, "", e) : e \in {"TimeoutException", "TransportError"}}

\* The gateways the poll cycle is run against.  Without token (LocalAnswers):
\* the URLs whose status the poll cycle reads answer 200, 401 or 404 (the
\* metered probe also 500) or fail; the device-info URLs answer, are absent
\* or fail; the other URLs, whose payload only the accessors read, answer 200.
\* With token (SecureAnswers): a metered gateway whose production.json and
\* token validation can refuse (401) or fail, and which answers every other
\* URL.
ProbeUrls ==
    { ENDPOINT_URL_PRODUCTION_JSON, ENDPOINT_URL_PRODUCTION_V1,
      ENDPOINT_URL_PRODUCTION, ENDPOINT_URL_PRODUCTION_INVERTERS,
      ENDPOINT_URL_CHECK_JWT }
InfoUrls == { ENDPOINT_URL_INFO_XML, URL_INFO_XML_SERIAL }
LocalAnswers(url) ==
    {a \in GatewayAnswers(url) :
        /\ a.kind = "exc" =>
              a.exc = "TransportError" /\ url \in ProbeUrls \cup InfoUrls
        /\ a.kind = "resp" /\ a.status = 401 => url \in ProbeUrls
        /\ a.kind = "resp" /\ a.status = 500 => url = ENDPOINT_URL_PRODUCTION_JSON
        /\ a.kind = "resp" /\ a.status = 404 => url \in ProbeUrls \cup InfoUrls
        /\ a.body \notin {"[]", "no enpower"}}
SecureAnswers(url) ==
    {a \in LocalAnswers(url) :
        /\ a.kind = "exc" => url \in {ENDPOINT_URL_PRODUCTION_JSON, ENDPOINT_URL_CHECK_JWT}
        /\ a.kind = "resp" /\ a.status = 401 =>
              url \in {ENDPOINT_URL_PRODUCTION_JSON, ENDPOINT_URL_CHECK_JWT}
        /\ a.kind = "resp" /\ a.status = 500 => FALSE
        /\ a.kind = "resp" /\ a.status = 404 => url = ENDPOINT_URL_CHECK_JWT
        /\ a.body \notin {"not json", "eim: disabled/enabled"}}

\* httpx.HTTPError and its subclasses, among the exceptions of the model.
IsHTTPError(e) == e \in {"TimeoutException", "TransportError", "HTTPStatusError"}

\* -------------------------------------------------------------- the token
EmptyToken == [empty |-> TRUE, exp |-> 0]
Token(e) == [empty |-> FALSE, exp |-> e]

VARIABLES
    \* construction parameters
    https_flag, use_enlighten_owner_token, fetch_retries,
    do_not_use_production_json,
    \* the reader's fields
    endpoint_type, has_grid_status, get_inverters, password,
    serial_number_last_six, endpoint_results,
    \* observation: the snapshots stored by the current poll cycle
    fetched,
    isProductionMeteringEnabled, isConsumptionMeteringEnabled,
    net_consumption_meters_type, production_meters_phase_count,
    consumption_meters_phase_count,
    authorization_header, cookies, token, store_update_pending,
    \* the token last written to the host's Store
    store,
    info_next_refresh_time, meters_next_refresh_time,
    \* the clock
    now,
    \* control: the position of getData, the calls in progress above it, and
    \* the result or exception a finished call hands to its caller
    pc, stack, ret,
    \* which of detect_model and _update the current getData runs, and the
    \* outcome of the last getData
    running, result,
    \* observation: the token at the entry of the current getData, the first
    \* request of the current getData, and the GET answered by the last step
    \* (if any)
    entry_token, first_req, last_get,
    \* a function or accessor called on the reader on its own: the call with
    \* its arguments, and what it returned or raised
    call, value

config == <<https_flag, use_enlighten_owner_token, fetch_retries,
            do_not_use_production_json>>
meters == <<isProductionMeteringEnabled, isConsumptionMeteringEnabled,
            net_consumption_meters_type, production_meters_phase_count,
            consumption_meters_phase_count>>
credential == <<authorization_header, cookies, token, store_update_pending,
                store>>
refresh_times == <<info_next_refresh_time, meters_next_refresh_time>>
fields == <<endpoint_type, has_grid_status, get_inverters, password,
            serial_number_last_six, endpoint_results, fetched>>
poll == <<pc, running, result, entry_token>>
called == <<call, value>>
vars == <<config, fields, meters, credential, refresh_times, now, stack, ret,
          poll, first_req, last_get, called>>

\* ---------------------------------------------------------- call frames
FetchFrame(url, attempt, p) ==
    [op |-> "fetch", url |-> url, attempt |-> attempt, pc |-> p]
RefreshFrame == [op |-> "refresh", url |-> "", attempt |-> 0, pc |-> "validate"]
TokenFrame(p) == [op |-> "token", url |-> "", attempt |-> 0, pc |-> p]

Top == stack[Len(stack)]
Pop == SubSeq(stack, 1, Len(stack) - 1)
SetTop(f) == [stack EXCEPT ![Len(stack)] = f]
FetchDepth == Cardinality({i \in 1..Len(stack) : stack[i].op = "fetch"})

NoRet == [kind |-> "none", resp |-> None, flag |-> FALSE, exc |-> "", by |-> ""]
RetResp(r, by) == [kind |-> "resp", resp |-> r, flag |-> FALSE, exc |-> "", by |-> by]
RetBool(b, by) == [kind |-> "bool", resp |-> None, flag |-> b, exc |-> "", by |-> by]
RetUnit(by) == [kind |-> "unit", resp |-> None, flag |-> FALSE, exc |-> "", by |-> by]
RetExc(e, by) == [kind |-> "exc", resp |-> None, flag |-> FALSE, exc |-> e, by |-> by]

NoGet == [url |-> "", attempt |-> 0, depth |-> 0, answer |-> Answer("none", 0, "", "")]
GetEvent(a) == [url |-> Top.url, attempt |-> Top.attempt, depth |-> Len(stack), answer |-> a]
FirstReq(what) == IF first_req = "none" THEN what ELSE first_req

\* Variant: a token that still counts as valid at the instant exp - buffer.
is_enphase_token_expired_late(tok, buffer, t) == ~(t <= tok.exp - buffer)

\* _is_enphase_token_expired: the token is unexpired while now < exp - buffer.
is_enphase_token_expired(tok, buffer, t) == ~(t < tok.exp - buffer)

NoCall == [op |-> "none"]
\* What a call made on its own came to: nothing yet, a returned value, or an
\* exception that escaped it.
NoValue == [kind |-> "none"]
Returns(v) == [kind |-> "return", v |-> v]
Raises(e) == [kind |-> "raise", exc |-> e]

\* ------------------------------------------------------------------ Init
\* EnvoyReader.__init__, the fields its parameters do not decide.
Constructed ==
    /\ endpoint_type = NoModel
    /\ has_grid_status = TRUE
    /\ serial_number_last_six = "None"
    /\ endpoint_results = [a \in SnapshotAttrs |-> None]
    /\ isProductionMeteringEnabled = FALSE
    /\ isConsumptionMeteringEnabled = FALSE
    /\ net_consumption_meters_type = FALSE
    /\ production_meters_phase_count = 0
    /\ consumption_meters_phase_count = 0
    /\ authorization_header = [set |-> FALSE, token |-> EmptyToken]
    /\ cookies = FALSE
    /\ token = EmptyToken
    /\ store_update_pending = FALSE
    /\ store = EmptyToken
    /\ fetched = {}
    /\ info_next_refresh_time = 0
    /\ meters_next_refresh_time = 0
    /\ now = 0
    /\ pc = "idle"
    /\ stack = <<>>
    /\ ret = NoRet
    /\ running = ""
    /\ result = "none"
    /\ entry_token = "none"
    /\ first_req = "none"
    /\ last_get = NoGet

\* No function has been called on the reader on its own.
Uncalled == call = NoCall /\ value = NoValue

\* self._fetch_retries = max(fetch_retries, 1)
FetchRetries(r) == IF r > 1 THEN r ELSE 1

\* The reader as the integration constructs it (__init__.py, lines 42-58, and
\* config_flow.py, lines 30-42): bearer-token mode and HTTPS go together and
\* the retry count is the integration's default.
Init ==
    /\ https_flag \in {"", "s"}
    /\ use_enlighten_owner_token = (https_flag = "s")
    /\ fetch_retries = FetchRetries(FETCH_RETRIES)
    /\ do_not_use_production_json = FALSE
    /\ get_inverters = TRUE
    /\ password \in (IF https_flag = "s" THEN {"given"} ELSE {"", "given"})
    /\ Constructed
    /\ Uncalled

\* ------------------------------------------- _async_fetch_with_retry
AtGet == ret.kind = "none" /\ stack # <<>> /\ Top.op = "fetch" /\ Top.pc = "get"

\* _refresh_token_cookies up to its await: the header is rebuilt from the
\* current token and the token-validation URL is fetched.
CallRefresh(stk) ==
    Append(Append(stk, RefreshFrame), FetchFrame(ENDPOINT_URL_CHECK_JWT, 0, "get"))
BearerHeader(tok) == [set |-> TRUE, token |-> tok]

\* Variant: the 401 handler of a transport that goes to the next attempt
\* without refreshing the credential.
Get401Refresh_skipped(a) ==
    /\ AtGet
    /\ a.kind = "resp" /\ a.status = 401 /\ Top.attempt < fetch_retries
    /\ use_enlighten_owner_token
    /\ stack' = SetTop([Top EXCEPT !.attempt = @ + 1])
    /\ ret' = NoRet
    /\ last_get' = GetEvent(a)
    /\ first_req' = FirstReq(Top.url)
    /\ UNCHANGED <<called, config, fields, meters, refresh_times, credential, now, poll>>

\* A 401 with attempts left, bearer-token mode: refresh the cookies.
Get401Refresh(a) ==
    /\ AtGet
    /\ a.kind = "resp" /\ a.status = 401 /\ Top.attempt < fetch_retries
    /\ use_enlighten_owner_token
    /\ FetchDepth < MaxDepth
    /\ stack' = CallRefresh(SetTop([Top EXCEPT !.pc = "refresh"]))
    /\ authorization_header' = BearerHeader(token)
    /\ ret' = NoRet
    /\ last_get' = GetEvent(a)
    /\ first_req' = FirstReq(Top.url)
    /\ UNCHANGED <<called, config, fields, meters, refresh_times, cookies, token,
                   store_update_pending, store, now, poll>>

\* Variant: a 401 handler that refreshes the cookies in either credential
\* mode.
Get401Retry_refreshing(a) ==
    /\ AtGet
    /\ a.kind = "resp" /\ a.status = 401 /\ Top.attempt < fetch_retries
    /\ ~use_enlighten_owner_token
    /\ FetchDepth < MaxDepth
    /\ stack' = CallRefresh(SetTop([Top EXCEPT !.pc = "refresh"]))
    /\ ret' = NoRet
    /\ last_get' = GetEvent(a)
    /\ first_req' = FirstReq(Top.url)
    /\ UNCHANGED <<called, config, fields, meters, refresh_times, credential, now, poll>>

\* A 401 with attempts left, no bearer token: the next attempt at once.
Get401Retry(a) ==
    /\ AtGet
    /\ a.kind = "resp" /\ a.status = 401 /\ Top.attempt < fetch_retries
    /\ ~use_enlighten_owner_token
    /\ stack' = SetTop([Top EXCEPT !.attempt = @ + 1])
    /\ ret' = NoRet
    /\ last_get' = GetEvent(a)
    /\ first_req' = FirstReq(Top.url)
    /\ UNCHANGED <<called, config, fields, meters, refresh_times, credential, now, poll>>

\* Variant: a transport that raises on a 401 instead of returning it.
GetReturn_raising(a) ==
    /\ AtGet
    /\ a.kind = "resp"
    /\ ~(a.status = 401 /\ Top.attempt < fetch_retries)
    /\ stack' = Pop
    /\ ret' = IF a.status = 404 THEN RetResp(None, "fetch")
              ELSE IF a.status = 401 THEN RetExc("HTTPStatusError", "fetch")
              ELSE RetResp(Response(a.status, a.body), "fetch")
    /\ last_get' = GetEvent(a)
    /\ first_req' = FirstReq(Top.url)
    /\ UNCHANGED <<called, config, fields, meters, refresh_times, credential, now, poll>>

\* Variant: a transport that returns a 404 response like any other.
GetReturn_404_kept(a) ==
    /\ AtGet
    /\ a.kind = "resp"
    /\ ~(a.status = 401 /\ Top.attempt < fetch_retries)
    /\ stack' = Pop
    /\ ret' = RetResp(Response(a.status, a.body), "fetch")
    /\ last_get' = GetEvent(a)
    /\ first_req' = FirstReq(Top.url)
    /\ UNCHANGED <<called, config, fields, meters, refresh_times, credential, now, poll>>

\* Any other response ends the call: None for a 404, the response otherwise
\* (a 401 on the last attempt included).
GetReturn(a) ==
    /\ AtGet
    /\ a.kind = "resp"
    /\ ~(a.status = 401 /\ Top.attempt < fetch_retries)
    /\ stack' = Pop
    /\ ret' = IF a.status = 404 THEN RetResp(None, "fetch")
              ELSE RetResp(Response(a.status, a.body), "fetch")
    /\ last_get' = GetEvent(a)
    /\ first_req' = FirstReq(Top.url)
    /\ UNCHANGED <<called, config, fields, meters, refresh_times, credential, now, poll>>

\* Variant: a transport that gives up one attempt early.
GetFail_early(a) ==
    /\ AtGet
    /\ a.kind = "exc"
    /\ IF Top.attempt + 1 >= fetch_retries
       THEN stack' = Pop /\ ret' = RetExc(a.exc, "fetch")
       ELSE stack' = SetTop([Top EXCEPT !.pc = "sleep"]) /\ ret' = NoRet
    /\ last_get' = GetEvent(a)
    /\ first_req' = FirstReq(Top.url)
    /\ UNCHANGED <<called, config, fields, meters, refresh_times, credential, now, poll>>

\* A timeout or another exception of the GET: raise on the last attempt,
\* sleep the holdoff otherwise.
GetFail(a) ==
    /\ AtGet
    /\ a.kind = "exc"
    /\ IF Top.attempt = fetch_retries
       THEN stack' = Pop /\ ret' = RetExc(a.exc, "fetch")
       ELSE stack' = SetTop([Top EXCEPT !.pc = "sleep"]) /\ ret' = NoRet
    /\ last_get' = GetEvent(a)
    /\ first_req' = FirstReq(Top.url)
    /\ UNCHANGED <<called, config, fields, meters, refresh_times, credential, now, poll>>

\* asyncio.sleep(holdoff) is over: the next attempt.
Holdoff ==
    /\ ret.kind = "none" /\ stack # <<>> /\ Top.op = "fetch" /\ Top.pc = "sleep"
    /\ stack' = SetTop([Top EXCEPT !.attempt = @ + 1, !.pc = "get"])
    /\ last_get' = NoGet
    /\ UNCHANGED <<called, config, fields, meters, refresh_times, credential, now, ret,
                   poll, first_req>>

\* Variant: a 401 handler that logs in to the cloud whatever the cookie
\* refresh reported.
FetchResume_login_always ==
    /\ ret.kind # "none" /\ stack # <<>> /\ Top.op = "fetch"
    /\ Top.pc \in {"refresh", "token"}
    /\ IF ret.kind = "exc"
       THEN IF Top.attempt = fetch_retries
            THEN stack' = Pop /\ ret' = RetExc(ret.exc, "fetch")
            ELSE stack' = SetTop([Top EXCEPT !.pc = "sleep"]) /\ ret' = NoRet
       ELSE IF Top.pc = "refresh"
            THEN /\ stack' = Append(SetTop([Top EXCEPT !.pc = "token"]),
                                    TokenFrame("login"))
                 /\ ret' = NoRet
            ELSE /\ stack' = SetTop([Top EXCEPT !.attempt = @ + 1, !.pc = "get"])
                 /\ ret' = NoRet
    /\ last_get' = NoGet
    /\ UNCHANGED <<called, config, fields, meters, refresh_times, credential, now, poll,
                   first_req>>

\* The 401 handler's awaits return into the try block of the attempt.
FetchResume ==
    /\ ret.kind # "none" /\ stack # <<>> /\ Top.op = "fetch"
    /\ Top.pc \in {"refresh", "token"}
    /\ IF ret.kind = "exc"
       THEN IF Top.attempt = fetch_retries
            THEN stack' = Pop /\ ret' = RetExc(ret.exc, "fetch")
            ELSE stack' = SetTop([Top EXCEPT !.pc = "sleep"]) /\ ret' = NoRet
       ELSE IF Top.pc = "refresh" /\ ~ret.flag
            THEN /\ stack' = Append(SetTop([Top EXCEPT !.pc = "token"]),
                                    TokenFrame("login"))
                 /\ ret' = NoRet
            ELSE /\ stack' = SetTop([Top EXCEPT !.attempt = @ + 1, !.pc = "get"])
                 /\ ret' = NoRet
    /\ last_get' = NoGet
    /\ UNCHANGED <<called, config, fields, meters, refresh_times, credential, now, poll,
                   first_req>>

\* ------------------------------------------------ _refresh_token_cookies
RefreshResume ==
    /\ ret.kind # "none" /\ stack # <<>> /\ Top.op = "refresh"
    /\ stack' = Pop
    /\ IF ret.kind = "exc"
       THEN ret' = RetExc(ret.exc, "refresh") /\ cookies' = cookies
       ELSE IF ret.resp = None
            THEN ret' = RetExc("AttributeError", "refresh") /\ cookies' = cookies
            ELSE IF ret.resp.status = 200
                 THEN ret' = RetBool(TRUE, "refresh") /\ cookies' = TRUE
                 ELSE ret' = RetBool(FALSE, "refresh") /\ cookies' = cookies
    /\ last_get' = NoGet
    /\ UNCHANGED <<called, config, fields, meters, refresh_times, authorization_header,
                   token, store_update_pending, store, now, poll, first_req>>

\* ---------------------------- _getEnphaseToken / _fetch_owner_token_json
CloudAnswers ==
    {Answer("resp", s, "", "") : s \in {200, 401}}
    \cup {Answer("exc", 0, "", "TransportError")}

\* POST login.json
PostLogin(a) ==
    /\ ret.kind = "none" /\ stack # <<>> /\ Top.op = "token" /\ Top.pc = "login"
    /\ IF a.kind = "exc"
       THEN stack' = Pop /\ ret' = RetExc(a.exc, "token")
       ELSE IF a.status >= 400
            THEN stack' = Pop /\ ret' = RetExc("RuntimeError: login", "token")
            ELSE stack' = SetTop(TokenFrame("issue")) /\ ret' = NoRet
    /\ first_req' = FirstReq("login")
    /\ last_get' = NoGet
    /\ UNCHANGED <<called, config, fields, meters, refresh_times, credential, now, poll>>

\* POST tokens, the expiry check of the new token, and the cookie refresh.
PostToken(a, life) ==
    /\ ret.kind = "none" /\ stack # <<>> /\ Top.op = "token" /\ Top.pc = "issue"
    /\ IF a.kind = "exc"
       THEN /\ stack' = Pop /\ ret' = RetExc(a.exc, "token")
            /\ UNCHANGED <<token, store_update_pending, authorization_header>>
       ELSE IF a.status # 200
            THEN /\ stack' = Pop /\ ret' = RetExc("RuntimeError: token", "token")
                 /\ UNCHANGED <<token, store_update_pending, authorization_header>>
            ELSE /\ token' = Token(now + life)
                 /\ store_update_pending' = TRUE
                 /\ IF is_enphase_token_expired(Token(now + life),
                                                token_refresh_buffer_seconds, now)
                    THEN /\ stack' = Pop
                         /\ ret' = RetExc("RuntimeError: expired", "token")
                         /\ UNCHANGED authorization_header
                    ELSE /\ stack' = CallRefresh(SetTop(TokenFrame("refresh")))
                         /\ ret' = NoRet
                         /\ authorization_header' = BearerHeader(Token(now + life))
    /\ last_get' = NoGet
    /\ UNCHANGED <<called, config, fields, meters, refresh_times, cookies, store, now,
                   poll, first_req>>

\* _refresh_token_cookies returned into _getEnphaseToken: its result is dropped.
TokenResume ==
    /\ ret.kind # "none" /\ stack # <<>> /\ Top.op = "token" /\ Top.pc = "refresh"
    /\ stack' = Pop
    /\ ret' = IF ret.kind = "exc" THEN RetExc(ret.exc, "token") ELSE RetUnit("token")
    /\ last_get' = NoGet
    /\ UNCHANGED <<called, config, fields, meters, refresh_times, credential, now, poll,
                   first_req>>

\* ------------------------------------------------------------ the clock
\* Time passes between two polls.
Tick ==
    /\ now < MaxTime
    /\ pc = "idle"
    /\ now' = now + 1
    /\ last_get' = NoGet
    /\ UNCHANGED <<called, config, fields, meters, refresh_times, credential, stack,
                   ret, poll, first_req>>

\* ------------------------------------------------------ the bodies, parsed
\* response.json() raises JSONDecodeError on these bodies.
IsJson(body) == body \notin {"", "not json", "None"}

has_production_and_consumption(body) == body = "production+consumption"

\* The CT configuration a /ivp/meters body holds: entry 1 is the production
\* meter (index 0 in the source), entry 2 the consumption meter.
MetersJson(body) ==
    IF body = "eim: enabled/enabled"
    THEN << [state |-> "enabled", measurementType |-> "production", phaseCount |-> 3],
            [state |-> "enabled", measurementType |-> "net-consumption", phaseCount |-> 3] >>
    ELSE << [state |-> "disabled", measurementType |-> "production", phaseCount |-> 1],
            [state |-> "enabled", measurementType |-> "total-consumption", phaseCount |-> 1] >>
has_production_metering_setup(json) == json[1].state = "enabled"
\* Variant: the consumption meter read from the production meter's entry.
has_consumption_metering_setup_first(json) == json[1].state = "enabled"
has_consumption_metering_setup(json) == json[2].state = "enabled"
has_net_consumption_meters_type(json) == json[2].measurementType = "net-consumption"
get_production_meters_phase_count(json) == json[1].phaseCount
get_consumption_meters_phase_count(json) == json[2].phaseCount

\* ------------------------------------------------- positions of getData
\* The awaits of getData and of the functions it calls: the URL each fetches
\* and the attribute _update_endpoint stores the response in.
UrlOf(label) ==
    CASE label = "get_full_serial_number" -> URL_INFO_XML_SERIAL
      [] label = "pc_production_json" -> ENDPOINT_URL_PRODUCTION_JSON
      [] label = "pc_ensemble" -> ENDPOINT_URL_ENSEMBLE_INVENTORY
      [] label = "pc_home_json" -> ENDPOINT_URL_HOME_JSON
      [] label = "p_production_v1" -> ENDPOINT_URL_PRODUCTION_V1
      [] label = "p0_production" -> ENDPOINT_URL_PRODUCTION
      [] label = "p0_home" -> ENDPOINT_URL_HOME
      [] label = "info" -> ENDPOINT_URL_INFO_XML
      [] label = "meters" -> ENDPOINT_URL_METERS
      [] label = "meters_reports" -> ENDPOINT_URL_METERS_REPORTS
      [] label = "meters_readings" -> ENDPOINT_URL_METERS_READINGS
      [] label = "inverters" -> ENDPOINT_URL_PRODUCTION_INVERTERS
AttrOf(label) ==
    CASE label = "pc_production_json" -> "endpoint_production_json_results"
      [] label = "pc_ensemble" -> "endpoint_ensemble_json_results"
      [] label = "pc_home_json" -> "endpoint_home_json_results"
      [] label = "p_production_v1" -> "endpoint_production_v1_results"
      [] label = "p0_production" -> "endpoint_production_results"
      [] label = "p0_home" -> "endpoint_home_results"
      [] label = "info" -> "endpoint_info_results"
      [] label = "meters" -> "endpoint_meters_json_results"
      [] label = "meters_reports" -> "endpoint_meters_reports_json_results"
      [] label = "meters_readings" -> "endpoint_meters_readings_json_results"
      [] label = "inverters" -> "endpoint_production_inverters"
AwaitLabels ==
    { "get_full_serial_number", "pc_production_json", "pc_ensemble",
      "pc_home_json", "p_production_v1", "p0_production", "p0_home", "info",
      "meters", "meters_reports", "meters_readings", "inverters" }

\* getData goes on at `label`: an await (the fetch is called) or a check.
EnterAt(label) ==
    /\ pc' = label
    /\ stack' = IF label \in AwaitLabels
                THEN <<FetchFrame(UrlOf(label), 0, "get")>> ELSE <<>>
    /\ ret' = NoRet
    /\ UNCHANGED result
Enter(label) == EnterAt(label) /\ UNCHANGED running
\* getData returns ("ok") or raises: its caller goes on.
Finish(outcome) ==
    /\ pc' = "returned" /\ stack' = <<>> /\ ret' = NoRet /\ result' = outcome
    /\ UNCHANGED running

\* The fetch awaited at `label` has returned or raised.
Returned(label) == pc = label /\ stack = <<>> /\ ret.kind # "none"
\* _update_endpoint: setattr(self, attr, response)
Stored(label) == [endpoint_results EXCEPT ![AttrOf(label)] = ret.resp]
Quiet == last_get' = NoGet /\ UNCHANGED <<called, config, now, entry_token, first_req>>

\* Where the called functions start.
update_meters_start ==
    IF meters_next_refresh_time <= now THEN "meters" ELSE "meters_reports"
update_info_start(after) ==
    IF info_next_refresh_time <= now THEN "info" ELSE after
update_pc_start(detectmode) ==
    IF ~do_not_use_production_json \/ detectmode
    THEN "pc_production_json" ELSE "pc_ensemble"
detect_model_start ==
    IF password = "" /\ serial_number_last_six = "None"
    THEN "get_full_serial_number" ELSE update_pc_start(TRUE)
\* Variant: an _update that reads the production-only summary on a legacy
\* gateway as well.
update_after_pc_any(pm) ==
    IF endpoint_type \in {ENVOY_MODEL_C, ENVOY_MODEL_LEGACY}
          \/ (endpoint_type = ENVOY_MODEL_S /\ ~pm)
    THEN "p_production_v1"
    ELSE update_info_start("inverters_check")

\* _update, from line 263 on, on a gateway whose production metering is `pm`
update_after_pc(pm) ==
    IF endpoint_type = ENVOY_MODEL_C \/ (endpoint_type = ENVOY_MODEL_S /\ ~pm)
    THEN "p_production_v1"
    ELSE IF endpoint_type = ENVOY_MODEL_LEGACY THEN "p0_production"
         ELSE update_info_start("inverters_check")
update_start ==
    IF endpoint_type = ENVOY_MODEL_S THEN update_meters_start
    ELSE update_after_pc(isProductionMeteringEnabled)

\* Variant: a getData that runs detect_model on every call.
Dispatch_detect_always ==
    /\ running' = "detect_model"
    /\ EnterAt(detect_model_start)

\* getData, lines 589-592.
Dispatch ==
    /\ running' = IF endpoint_type = NoModel THEN "detect_model" ELSE "_update"
    /\ EnterAt(IF endpoint_type = NoModel THEN detect_model_start ELSE update_start)

TokenState ==
    IF token.empty THEN "empty"
    ELSE IF is_enphase_token_expired(token, token_refresh_buffer_seconds, now)
         THEN "expired" ELSE "valid"

\* Variant: a getData without the token check at its entry.
getData_no_token_check ==
    /\ pc = "idle"
    /\ entry_token' = TokenState
    /\ first_req' = "none"
    /\ Dispatch
    /\ last_get' = NoGet
    /\ UNCHANGED <<called, config, fields, meters, credential, refresh_times, now>>

\* ---------------------------------------------------------------- getData
\* The entry of getData, lines 566-592.
getData ==
    /\ pc = "idle"
    /\ entry_token' = TokenState
    /\ first_req' = "none"
    /\ IF https_flag = "s" /\ TokenState # "valid"
       THEN /\ pc' = "getEnphaseToken"
            /\ stack' = <<TokenFrame("login")>>
            /\ ret' = NoRet
            /\ running' = "getEnphaseToken"
            /\ UNCHANGED result
       ELSE Dispatch
    /\ last_get' = NoGet
    /\ UNCHANGED <<called, config, fields, meters, credential, refresh_times, now>>

\* _getEnphaseToken, called at the entry, has returned or raised.
getData_token ==
    /\ Returned("getEnphaseToken")
    /\ IF ret.kind = "exc"
       THEN Finish(ret.exc)
       ELSE Dispatch
    /\ Quiet
    /\ UNCHANGED <<fields, meters, credential, refresh_times>>

\* get_serial_number / get_full_serial_number, lines 704-729.
get_serial_number ==
    /\ Returned("get_full_serial_number")
    /\ IF ret.kind = "exc"
       THEN Finish(ret.exc) /\ UNCHANGED <<password, serial_number_last_six, get_inverters>>
       ELSE IF ret.resp = None
            THEN /\ Finish("AttributeError")
                 /\ UNCHANGED <<password, serial_number_last_six, get_inverters>>
            ELSE /\ Enter(update_pc_start(TRUE))
                 /\ IF ret.resp.body \in {"<sn>", "Envoy Serial Number:"}
                    THEN password' = "last six" /\ serial_number_last_six' = "last six"
                    ELSE UNCHANGED <<password, serial_number_last_six>>
                 /\ get_inverters' = IF ret.resp.body = "Envoy Serial Number:"
                                     THEN FALSE ELSE get_inverters
    /\ Quiet
    /\ UNCHANGED <<endpoint_type, has_grid_status, endpoint_results, fetched, meters,
                   credential, refresh_times>>

\* Variant: home.json requested whether or not grid status is supported.
update_from_pc_endpoint_home_always ==
    /\ \E label \in {"pc_production_json", "pc_ensemble", "pc_home_json"} :
          /\ Returned(label)
          /\ IF ret.kind = "exc"
             THEN /\ IF running = "detect_model" /\ IsHTTPError(ret.exc)
                     THEN Enter("detect_401_check")
                     ELSE Finish(ret.exc)
                  /\ UNCHANGED <<endpoint_results, fetched>>
             ELSE /\ endpoint_results' = Stored(label)
                  /\ fetched' = fetched \cup {AttrOf(label)}
                  /\ Enter(IF label = "pc_production_json" THEN "pc_ensemble"
                           ELSE IF label = "pc_ensemble"
                                THEN "pc_home_json"
                                ELSE IF running = "detect_model"
                                     THEN "detect_401_check"
                                     ELSE update_after_pc(isProductionMeteringEnabled))
    /\ Quiet
    /\ UNCHANGED <<endpoint_type, has_grid_status, get_inverters, password,
                   serial_number_last_six, meters, credential, refresh_times>>

\* _update_from_pc_endpoint, lines 288-300, and the try of lines 638-641.
update_from_pc_endpoint ==
    /\ \E label \in {"pc_production_json", "pc_ensemble", "pc_home_json"} :
          /\ Returned(label)
          /\ IF ret.kind = "exc"
             THEN /\ IF running = "detect_model" /\ IsHTTPError(ret.exc)
                     THEN Enter("detect_401_check")
                     ELSE Finish(ret.exc)
                  /\ UNCHANGED <<endpoint_results, fetched>>
             ELSE /\ endpoint_results' = Stored(label)
                  /\ fetched' = fetched \cup {AttrOf(label)}
                  /\ Enter(IF label = "pc_production_json" THEN "pc_ensemble"
                           ELSE IF label = "pc_ensemble" /\ has_grid_status
                                THEN "pc_home_json"
                                ELSE IF running = "detect_model"
                                     THEN "detect_401_check"
                                     ELSE update_after_pc(isProductionMeteringEnabled))
    /\ Quiet
    /\ UNCHANGED <<endpoint_type, has_grid_status, get_inverters, password,
                   serial_number_last_six, meters, credential, refresh_times>>

\* Variant: a detect_model that goes on to the other probes after a 401.
detect_no_401_check ==
    /\ pc = "detect_401_check"
    /\ Enter(update_info_start("detect_classify"))
    /\ Quiet
    /\ UNCHANGED <<fields, meters, credential, refresh_times>>

\* detect_model, lines 643-655.
detect_401_check ==
    /\ pc = "detect_401_check"
    /\ LET pj == endpoint_results["endpoint_production_json_results"] IN
       IF pj # None /\ pj.status = 401
       THEN Finish("RuntimeError: secure")
       ELSE Enter(update_info_start("detect_classify"))
    /\ Quiet
    /\ UNCHANGED <<fields, meters, credential, refresh_times>>

\* _update_info_endpoint, lines 317-334.
update_info_endpoint ==
    /\ Returned("info")
    /\ IF ret.kind = "exc"
       THEN Finish(ret.exc) /\ UNCHANGED <<endpoint_results, fetched, info_next_refresh_time>>
       ELSE /\ endpoint_results' = Stored("info")
            /\ fetched' = fetched \cup {AttrOf("info")}
            /\ info_next_refresh_time' = now + info_refresh_buffer_seconds
            /\ Enter(IF running = "detect_model" THEN "detect_classify"
                     ELSE "inverters_check")
    /\ Quiet
    /\ UNCHANGED <<endpoint_type, has_grid_status, get_inverters, password,
                   serial_number_last_six, meters, credential,
                   meters_next_refresh_time>>

\* Variant: a detection that reads the CT configuration of a gateway it has
\* not classified as metered.
detect_classify_meters_first ==
    /\ pc = "detect_classify"
    /\ LET pj == endpoint_results["endpoint_production_json_results"] IN
       IF pj # None /\ pj.status = 200
       THEN IF ~IsJson(pj.body)
            THEN Finish("JSONDecodeError") /\ UNCHANGED endpoint_type
            ELSE IF has_production_and_consumption(pj.body)
                 THEN endpoint_type' = ENVOY_MODEL_S /\ Enter(update_meters_start)
                 ELSE Enter(update_meters_start) /\ UNCHANGED endpoint_type
       ELSE Enter("p_production_v1") /\ UNCHANGED endpoint_type
    /\ Quiet
    /\ UNCHANGED <<has_grid_status, get_inverters, password,
                   serial_number_last_six, endpoint_results, fetched, meters, credential,
                   refresh_times>>

\* detect_model, lines 657-675.
detect_classify ==
    /\ pc = "detect_classify"
    /\ LET pj == endpoint_results["endpoint_production_json_results"] IN
       IF pj # None /\ pj.status = 200
       THEN IF ~IsJson(pj.body)
            THEN Finish("JSONDecodeError") /\ UNCHANGED endpoint_type
            ELSE IF has_production_and_consumption(pj.body)
                 THEN endpoint_type' = ENVOY_MODEL_S /\ Enter(update_meters_start)
                 ELSE Enter("p_production_v1") /\ UNCHANGED endpoint_type
       ELSE Enter("p_production_v1") /\ UNCHANGED endpoint_type
    /\ Quiet
    /\ UNCHANGED <<has_grid_status, get_inverters, password,
                   serial_number_last_six, endpoint_results, fetched, meters, credential,
                   refresh_times>>

\* Variant: a refresh that finds no CT configuration resets the capability.
update_meters_endpoint_reset ==
    /\ Returned("meters")
    /\ IF ret.kind = "exc"
       THEN /\ Finish(ret.exc)
            /\ UNCHANGED <<endpoint_results, fetched, meters, meters_next_refresh_time>>
       ELSE /\ endpoint_results' = Stored("meters")
            /\ fetched' = fetched \cup {AttrOf("meters")}
            /\ IF ret.resp # None /\ ret.resp.body # "[]"
               THEN IF ~IsJson(ret.resp.body)
                    THEN /\ Finish("JSONDecodeError")
                         /\ UNCHANGED <<meters, meters_next_refresh_time>>
                    ELSE LET json == MetersJson(ret.resp.body) IN
                         /\ isProductionMeteringEnabled' = has_production_metering_setup(json)
                         /\ isConsumptionMeteringEnabled' = has_consumption_metering_setup(json)
                         /\ net_consumption_meters_type' = has_net_consumption_meters_type(json)
                         /\ production_meters_phase_count' = get_production_meters_phase_count(json)
                         /\ consumption_meters_phase_count' = get_consumption_meters_phase_count(json)
                         /\ meters_next_refresh_time' = now + info_refresh_buffer_seconds
                         /\ Enter("meters_reports")
               ELSE /\ Enter("meters_reports")
                    /\ isProductionMeteringEnabled' = FALSE
                    /\ isConsumptionMeteringEnabled' = FALSE
                    /\ net_consumption_meters_type' = FALSE
                    /\ production_meters_phase_count' = 0
                    /\ consumption_meters_phase_count' = 0
                    /\ UNCHANGED meters_next_refresh_time
    /\ Quiet
    /\ UNCHANGED <<endpoint_type, has_grid_status, get_inverters, password,
                   serial_number_last_six, credential, info_next_refresh_time>>

\* _update_meters_endpoint, lines 336-375: the /ivp/meters fetch.
update_meters_endpoint ==
    /\ Returned("meters")
    /\ IF ret.kind = "exc"
       THEN /\ Finish(ret.exc)
            /\ UNCHANGED <<endpoint_results, fetched, meters, meters_next_refresh_time>>
       ELSE /\ endpoint_results' = Stored("meters")
            /\ fetched' = fetched \cup {AttrOf("meters")}
            /\ IF ret.resp # None /\ ret.resp.body # "[]"
               THEN IF ~IsJson(ret.resp.body)
                    THEN /\ Finish("JSONDecodeError")
                         /\ UNCHANGED <<meters, meters_next_refresh_time>>
                    ELSE LET json == MetersJson(ret.resp.body) IN
                         /\ isProductionMeteringEnabled' = has_production_metering_setup(json)
                         /\ isConsumptionMeteringEnabled' = has_consumption_metering_setup(json)
                         /\ net_consumption_meters_type' = has_net_consumption_meters_type(json)
                         /\ production_meters_phase_count' = get_production_meters_phase_count(json)
                         /\ consumption_meters_phase_count' = get_consumption_meters_phase_count(json)
                         /\ meters_next_refresh_time' = now + info_refresh_buffer_seconds
                         /\ Enter("meters_reports")
               ELSE /\ Enter("meters_reports")
                    /\ UNCHANGED <<meters, meters_next_refresh_time>>
    /\ Quiet
    /\ UNCHANGED <<endpoint_type, has_grid_status, get_inverters, password,
                   serial_number_last_six, credential, info_next_refresh_time>>

\* _update_from_meters_reports_endpoint and _update_from_meters_readings_endpoint,
\* lines 272-286, and what follows _update_meters_endpoint in its caller
\* (lines 670-672 of detect_model, line 262 of _update).
update_from_meters_reports_endpoint ==
    /\ \E label \in {"meters_reports", "meters_readings"} :
          /\ Returned(label)
          /\ IF ret.kind = "exc"
             THEN Finish(ret.exc) /\ UNCHANGED <<endpoint_results, fetched>>
             ELSE /\ endpoint_results' = Stored(label)
                  /\ fetched' = fetched \cup {AttrOf(label)}
                  /\ Enter(IF label = "meters_reports" THEN "meters_readings"
                           ELSE IF running = "detect_model"
                                THEN IF ~isProductionMeteringEnabled
                                     THEN "p_production_v1" ELSE "inverters_check"
                                ELSE update_pc_start(FALSE))
    /\ Quiet
    /\ UNCHANGED <<endpoint_type, has_grid_status, get_inverters, password,
                   serial_number_last_six, meters, credential, refresh_times>>

\* _update_from_p_endpoint, lines 302-306, with its callers: detect_model
\* after a metered classification (line 671), detect_model's production-only
\* probe (lines 674-683) and _update (line 266).
update_from_p_endpoint ==
    /\ Returned("p_production_v1")
    /\ LET probe == running = "detect_model" /\ endpoint_type = NoModel
           v1 == IF ret.kind = "exc"
                 THEN endpoint_results["endpoint_production_v1_results"]
                 ELSE ret.resp
       IN IF ret.kind = "exc" /\ ~(probe /\ IsHTTPError(ret.exc))
          THEN Finish(ret.exc) /\ UNCHANGED <<endpoint_results, fetched, endpoint_type>>
          ELSE /\ endpoint_results' =
                     [endpoint_results EXCEPT !["endpoint_production_v1_results"] = v1]
               /\ fetched' = IF ret.kind = "exc" THEN fetched
                             ELSE fetched \cup {"endpoint_production_v1_results"}
               /\ IF probe
                  THEN IF v1 # None /\ v1.status = 200
                       THEN endpoint_type' = ENVOY_MODEL_C /\ Enter("inverters_check")
                       ELSE Enter("p0_production") /\ UNCHANGED endpoint_type
                  ELSE /\ Enter(IF running = "detect_model" THEN "inverters_check"
                                ELSE update_info_start("inverters_check"))
                       /\ UNCHANGED endpoint_type
    /\ Quiet
    /\ UNCHANGED <<has_grid_status, get_inverters, password,
                   serial_number_last_six, meters, credential, refresh_times>>

\* Variant: an _update_endpoint that clears the snapshot when its fetch
\* raises.
update_from_p0_endpoint_cleared ==
    /\ \E label \in {"p0_production", "p0_home"} :
          /\ Returned(label)
          /\ IF ret.kind = "exc"
             THEN /\ IF running = "detect_model" /\ IsHTTPError(ret.exc)
                     THEN Enter("detect_p0_check")
                     ELSE Finish(ret.exc)
                  /\ endpoint_results' =
                        [endpoint_results EXCEPT ![AttrOf(label)] = None]
                  /\ fetched' = fetched
             ELSE /\ endpoint_results' = Stored(label)
                  /\ fetched' = fetched \cup {AttrOf(label)}
                  /\ Enter(IF label = "p0_production" THEN "p0_home"
                           ELSE IF running = "detect_model" THEN "detect_p0_check"
                                ELSE update_info_start("inverters_check"))
    /\ Quiet
    /\ UNCHANGED <<endpoint_type, has_grid_status, get_inverters, password,
                   serial_number_last_six, meters, credential, refresh_times>>

\* _update_from_p0_endpoint, lines 308-315, and the try of lines 685-688.
update_from_p0_endpoint ==
    /\ \E label \in {"p0_production", "p0_home"} :
          /\ Returned(label)
          /\ IF ret.kind = "exc"
             THEN /\ IF running = "detect_model" /\ IsHTTPError(ret.exc)
                     THEN Enter("detect_p0_check")
                     ELSE Finish(ret.exc)
                  /\ UNCHANGED <<endpoint_results, fetched>>
             ELSE /\ endpoint_results' = Stored(label)
                  /\ fetched' = fetched \cup {AttrOf(label)}
                  /\ Enter(IF label = "p0_production" THEN "p0_home"
                           ELSE IF running = "detect_model" THEN "detect_p0_check"
                                ELSE update_info_start("inverters_check"))
    /\ Quiet
    /\ UNCHANGED <<endpoint_type, has_grid_status, get_inverters, password,
                   serial_number_last_six, meters, credential, refresh_times>>

\* Variant: a classification as legacy that leaves inverter detail enabled.
detect_p0_check_inverters_kept ==
    /\ pc = "detect_p0_check"
    /\ LET p0 == endpoint_results["endpoint_production_results"] IN
       IF p0 # None /\ p0.status = 200
       THEN /\ endpoint_type' = ENVOY_MODEL_LEGACY
            /\ UNCHANGED get_inverters
            /\ Enter("inverters_check")
       ELSE /\ Finish("RuntimeError: connect")
            /\ UNCHANGED <<endpoint_type, get_inverters>>
    /\ Quiet
    /\ UNCHANGED <<has_grid_status, password, serial_number_last_six,
                   endpoint_results, fetched, meters, credential, refresh_times>>

\* detect_model, lines 689-702.
detect_p0_check ==
    /\ pc = "detect_p0_check"
    /\ LET p0 == endpoint_results["endpoint_production_results"] IN
       IF p0 # None /\ p0.status = 200
       THEN /\ endpoint_type' = ENVOY_MODEL_LEGACY
            /\ get_inverters' = FALSE
            /\ Enter("inverters_check")
       ELSE /\ Finish("RuntimeError: connect")
            /\ UNCHANGED <<endpoint_type, get_inverters>>
    /\ Quiet
    /\ UNCHANGED <<has_grid_status, password, serial_number_last_six,
                   endpoint_results, fetched, meters, credential, refresh_times>>

\* getData, lines 606-619.
inverters_check ==
    /\ pc = "inverters_check"
    /\ IF ~get_inverters THEN Finish("ok") ELSE Enter("inverters")
    /\ Quiet
    /\ UNCHANGED <<fields, meters, credential, refresh_times>>

\* getData, lines 620-627.
getData_inverters ==
    /\ Returned("inverters")
    /\ IF ret.kind = "exc"
       THEN Finish(ret.exc) /\ UNCHANGED <<endpoint_results, fetched, get_inverters>>
       ELSE IF ret.resp = None
            THEN Finish("AttributeError") /\ UNCHANGED <<endpoint_results, fetched, get_inverters>>
            ELSE IF ret.resp.status \in {401, 404}
                 THEN IF endpoint_type \in {ENVOY_MODEL_C, ENVOY_MODEL_LEGACY}
                      THEN /\ get_inverters' = FALSE
                           /\ Finish("ok")
                           /\ UNCHANGED <<endpoint_results, fetched>>
                      ELSE /\ Finish("HTTPStatusError")
                           /\ UNCHANGED <<endpoint_results, fetched, get_inverters>>
                 ELSE /\ endpoint_results' = Stored("inverters")
                      /\ fetched' = fetched \cup {AttrOf("inverters")}
                      /\ Finish("ok")
                      /\ UNCHANGED get_inverters
    /\ Quiet
    /\ UNCHANGED <<endpoint_type, has_grid_status, password,
                   serial_number_last_six, meters, credential, refresh_times>>

\* grid_status, lines 1140-1148: the accessor drops the capability flag when
\* the home.json snapshot holds no grid status.
grid_status(flag, home) ==
    flag /\ home # None /\ home.status = 200 /\ home.body = "enpower.grid_status"

\* The try/except of async_update_data around getData (__init__.py, lines
\* 64-70): what the host's coordinator is handed for an exception e of
\* getData. An exception that is no httpx.HTTPError passes through as it is.
update_failure(e) ==
    IF e = "HTTPStatusError" THEN "ConfigEntryAuthFailed"
    ELSE IF IsHTTPError(e) THEN "UpdateFailed"
    ELSE e

\* The accessor loops of async_update_data (__init__.py, lines 72-109) raise
\* when an accessor reads a snapshot that is None or holds no JSON outside a
\* try: production and lifetime_production (lines 826-835, 1006-1015), the
\* daily and seven-days values (lines 879-887, 930, 961-969, 992),
\* battery_storage on a missing production.json (line 1087), the meters
\* helpers on a reports or readings body that is no JSON (lines 769, 802) and
\* grid_status on such a home.json (line 1144).
Unread(r) == r = None \/ ~IsJson(r.body)
Garbled(r) == r # None /\ ~IsJson(r.body)
accessors_raise ==
    LET pj == endpoint_results["endpoint_production_json_results"]
        v1 == endpoint_results["endpoint_production_v1_results"]
        reports == endpoint_results["endpoint_meters_reports_json_results"]
        readings == endpoint_results["endpoint_meters_readings_json_results"]
        home == endpoint_results["endpoint_home_json_results"]
    IN  CASE endpoint_type = ENVOY_MODEL_S ->
                \/ pj = None
                \/ IF isProductionMeteringEnabled
                   THEN Unread(reports)
                        \/ (~do_not_use_production_json /\ Unread(pj))
                   ELSE Unread(pj) \/ Unread(v1)
                \/ /\ isConsumptionMeteringEnabled
                   /\ ~do_not_use_production_json /\ Unread(pj)
                \/ /\ isProductionMeteringEnabled \/ isConsumptionMeteringEnabled
                   /\ Garbled(reports)
                \/ /\ isConsumptionMeteringEnabled /\ net_consumption_meters_type
                   /\ Garbled(readings)
                \/ has_grid_status /\ home # None /\ home.status = 200
                      /\ ~IsJson(home.body)
          [] endpoint_type = ENVOY_MODEL_C -> Unread(v1)
          [] endpoint_type = ENVOY_MODEL_LEGACY ->
                Unread(endpoint_results["endpoint_production_results"])
          [] OTHER -> FALSE

\* Variant: a _sync_store that clears the pending flag without writing.
async_update_data_flag_only ==
    /\ pc = "returned"
    /\ pc' = "idle"
    /\ result' = "none"
    /\ running' = ""
    /\ entry_token' = "none"
    /\ first_req' = "none"
    /\ IF result = "ok" /\ ~accessors_raise
       THEN /\ has_grid_status' =
                  grid_status(has_grid_status,
                              endpoint_results["endpoint_home_json_results"])
            /\ store' = store
            /\ store_update_pending' = FALSE
       ELSE UNCHANGED <<has_grid_status, store, store_update_pending>>
    /\ fetched' = {}
    /\ last_get' = NoGet
    /\ UNCHANGED <<called, config, endpoint_type, get_inverters, password,
                   serial_number_last_six, endpoint_results, meters,
                   authorization_header, cookies, token, refresh_times, now,
                   stack, ret>>

\* async_update_data of the host (__init__.py, lines 61-115) after getData:
\* a failure is turned into the host's exception; after a success the
\* accessors are read, grid_status among them, and _sync_store (lines
\* 235-241 of envoy_reader.py) writes a pending token to the Store and
\* clears the flag.  An exception of getData or of an accessor ends the
\* cycle before grid_status and _sync_store.  The record of the snapshots
\* the cycle stored ends with the cycle.
async_update_data ==
    /\ pc = "returned"
    /\ pc' = "idle"
    /\ result' = "none"
    /\ running' = ""
    /\ entry_token' = "none"
    /\ first_req' = "none"
    /\ IF result = "ok" /\ ~accessors_raise
       THEN /\ has_grid_status' =
                  grid_status(has_grid_status,
                              endpoint_results["endpoint_home_json_results"])
            /\ store' = IF store_update_pending THEN token ELSE store
            /\ store_update_pending' = FALSE
       ELSE UNCHANGED <<has_grid_status, store, store_update_pending>>
    /\ fetched' = {}
    /\ last_get' = NoGet
    /\ UNCHANGED <<called, config, endpoint_type, get_inverters, password,
                   serial_number_last_six, endpoint_results, meters,
                   authorization_header, cookies, token, refresh_times, now,
                   stack, ret>>

\* check_connection, lines 555-564: one transport call for one URL, nothing
\* stored.
check_connection ==
    /\ pc = "idle"
    /\ pc' = "check_connection"
    /\ stack' = <<FetchFrame(ENDPOINT_URL_PRODUCTION_V1, 0, "get")>>
    /\ ret' = NoRet
    /\ result' = "none"
    /\ last_get' = NoGet
    /\ UNCHANGED <<called, config, fields, meters, credential, refresh_times, now,
                   running, entry_token, first_req>>

check_connection_returned ==
    /\ Returned("check_connection")
    /\ pc' = "idle" /\ stack' = <<>> /\ ret' = NoRet
    /\ result' = IF ret.kind = "exc" THEN ret.exc
                 ELSE IF ret.resp = None THEN "AttributeError"
                 ELSE IF ret.resp.status = 301 THEN "SwitchToHTTPS" ELSE "ok"
    /\ last_get' = NoGet
    /\ UNCHANGED <<called, config, fields, meters, credential, refresh_times, now,
                   running, entry_token, first_req>>

\* ------------------------------------------------------------------ Next
PollAnswers(url) ==
    IF url = "" THEN {}
    ELSE IF https_flag = "s" THEN SecureAnswers(url) ELSE LocalAnswers(url)

\* The poll cycle the host drives: getData, then the grid_status accessor.
Next ==
    \/ \E a \in PollAnswers(IF AtGet THEN Top.url ELSE "") : Get401Refresh(a)
    \/ \E a \in PollAnswers(IF AtGet THEN Top.url ELSE "") : Get401Retry(a)
    \/ \E a \in PollAnswers(IF AtGet THEN Top.url ELSE "") : GetReturn(a)
    \/ \E a \in PollAnswers(IF AtGet THEN Top.url ELSE "") : GetFail(a)
    \/ Holdoff
    \/ FetchResume
    \/ RefreshResume
    \/ \E a \in CloudAnswers : PostLogin(a)
    \/ \E a \in CloudAnswers, life \in TokenLifetimes : PostToken(a, life)
    \/ TokenResume
    \/ Tick
    \/ getData
    \/ getData_token
    \/ get_serial_number
    \/ update_from_pc_endpoint
    \/ detect_401_check
    \/ update_info_endpoint
    \/ detect_classify
    \/ update_meters_endpoint
    \/ update_from_meters_reports_endpoint
    \/ update_from_p_endpoint
    \/ update_from_p0_endpoint
    \/ detect_p0_check
    \/ inverters_check
    \/ getData_inverters
    \/ async_update_data

Spec == Init /\ [][Next]_vars

\* The transport on its own: check_connection called again and again, in
\* either credential mode and with every retry count, against a gateway that
\* answers anything.
InitFetch ==
    /\ https_flag \in {"", "s"}
    /\ use_enlighten_owner_token \in BOOLEAN
    /\ \E r \in 0..MaxRetries : fetch_retries = FetchRetries(r)
    /\ do_not_use_production_json = FALSE
    /\ get_inverters = TRUE
    /\ password = "given"
    /\ Constructed
    /\ Uncalled

NextFetch ==
    \/ \E a \in GatewayAnswers(IF AtGet THEN Top.url ELSE "") : Get401Refresh(a)
    \/ \E a \in GatewayAnswers(IF AtGet THEN Top.url ELSE "") : Get401Retry(a)
    \/ \E a \in GatewayAnswers(IF AtGet THEN Top.url ELSE "") : GetReturn(a)
    \/ \E a \in GatewayAnswers(IF AtGet THEN Top.url ELSE "") : GetFail(a)
    \/ Holdoff
    \/ FetchResume
    \/ RefreshResume
    \/ \E a \in CloudAnswers : PostLogin(a)
    \/ \E a \in CloudAnswers, life \in TokenLifetimes : PostToken(a, life)
    \/ TokenResume
    \/ check_connection
    \/ check_connection_returned

SpecFetch == InitFetch /\ [][NextFetch]_vars

\* ------------------------------------------------ a gateway that answers
\* The poll cycle without token against a gateway of any of the three models
\* that answers every request: an endpoint it has answers 200, the two
\* model probes it may lack answer 404, and /ivp/meters and home.json send
\* any of their bodies.
HealthyAnswers(url) ==
    IF url = "" THEN {}
    ELSE {a \in GatewayAnswers(url) :
             /\ a.kind = "resp"
             /\ \/ a.status = 200
                \/ /\ a.status = 404
                   /\ url \in {ENDPOINT_URL_PRODUCTION_JSON,
                               ENDPOINT_URL_PRODUCTION_V1}
             /\ a.body # "not json"}

InitHealthy ==
    /\ https_flag = ""
    /\ use_enlighten_owner_token = FALSE
    /\ fetch_retries = FetchRetries(FETCH_RETRIES)
    /\ do_not_use_production_json = FALSE
    /\ get_inverters = TRUE
    /\ password = "given"
    /\ Constructed
    /\ Uncalled

NextHealthy ==
    \/ \E a \in HealthyAnswers(IF AtGet THEN Top.url ELSE "") : GetReturn(a)
    \/ Tick
    \/ getData
    \/ update_from_pc_endpoint
    \/ detect_401_check
    \/ update_info_endpoint
    \/ detect_classify
    \/ update_meters_endpoint
    \/ update_from_meters_reports_endpoint
    \/ update_from_p_endpoint
    \/ update_from_p0_endpoint
    \/ detect_p0_check
    \/ inverters_check
    \/ getData_inverters
    \/ async_update_data

SpecHealthy == InitHealthy /\ [][NextHealthy]_vars

\* --------------------------------- polls that skip production.json
\* The gateways of SpecHealthy, polled by a reader constructed with
\* do_not_use_production_json set.
InitSkip ==
    /\ https_flag = ""
    /\ use_enlighten_owner_token = FALSE
    /\ fetch_retries = FetchRetries(FETCH_RETRIES)
    /\ do_not_use_production_json = TRUE
    /\ get_inverters = TRUE
    /\ password = "given"
    /\ Constructed
    /\ Uncalled

SpecSkip == InitSkip /\ [][NextHealthy]_vars

\* The snapshots the whole-system metric accessors read after a poll, by
\* model and CT configuration: production and lifetime_production (lines
\* 824-835, 1004-1015), the daily and seven-days values (lines 876-887,
\* 927-930, 958-969, 989-992), the meters helpers (lines 756-769, 793-802)
\* and battery_storage (lines 1083-1087).
snapshots_read ==
    CASE endpoint_type = ENVOY_MODEL_S ->
            {"endpoint_production_json_results"}
            \cup (IF isProductionMeteringEnabled
                  THEN {"endpoint_meters_reports_json_results"}
                  ELSE {"endpoint_production_v1_results"})
            \cup (IF isConsumptionMeteringEnabled
                  THEN {"endpoint_meters_reports_json_results"} ELSE {})
            \cup (IF isConsumptionMeteringEnabled /\ net_consumption_meters_type
                  THEN {"endpoint_meters_readings_json_results"} ELSE {})
      [] endpoint_type = ENVOY_MODEL_C -> {"endpoint_production_v1_results"}
      [] endpoint_type = ENVOY_MODEL_LEGACY -> {"endpoint_production_results"}
      [] OTHER -> {}

\* ------------------------------------- the CT configuration, resolved
\* The well-formed entries of a /ivp/meters response.
MeterEntries(types) ==
    [state : {"enabled", "disabled"}, measurementType : types,
     phaseCount : 1..MaxPhases]

InitResolve ==
    /\ https_flag = ""
    /\ use_enlighten_owner_token = FALSE
    /\ fetch_retries = FetchRetries(FETCH_RETRIES)
    /\ do_not_use_production_json = FALSE
    /\ get_inverters = TRUE
    /\ password = "given"
    /\ Constructed
    /\ \E e0 \in MeterEntries({"production"}),
          e1 \in MeterEntries({"net-consumption", "total-consumption"}) :
          call = [op |-> "_update_meters_endpoint", json |-> <<e0, e1>>]
    /\ value = NoValue

\* The five assignments of _update_meters_endpoint, lines 342-358, for the
\* response drawn above: what the capability fields become.
update_meters_endpoint_call ==
    /\ call.op = "_update_meters_endpoint"
    /\ value = NoValue
    /\ value' = Returns(<<has_production_metering_setup(call.json),
                          has_consumption_metering_setup(call.json),
                          has_net_consumption_meters_type(call.json),
                          get_production_meters_phase_count(call.json),
                          get_consumption_meters_phase_count(call.json)>>)
    /\ UNCHANGED <<call, config, fields, meters, credential, refresh_times,
                   now, stack, ret, poll, first_req, last_get>>

NextResolve == update_meters_endpoint_call

SpecResolve == InitResolve /\ [][NextResolve]_vars

\* ------------------------------- the CT configuration, short responses
\* The entries a /ivp/meters response can hold when keys may be missing: a
\* JSON object with any subset of the three keys the refresh reads.
StateParts == {<<>>} \cup {("state" :> v) : v \in {"enabled", "disabled"}}
TypeParts(types) == {<<>>} \cup {("measurementType" :> t) : t \in types}
PhaseParts == {<<>>} \cup {("phaseCount" :> n) : n \in 1..MaxPhases}
TypedEntries(types) ==
    {a @@ b @@ c : a \in StateParts, b \in TypeParts(types), c \in PhaseParts}
ShortResponses ==
    { <<e0>> : e0 \in TypedEntries({"production"}) }
    \cup { <<e0, e1>> : e0 \in TypedEntries({"production"}),
                        e1 \in TypedEntries({"net-consumption",
                                             "total-consumption"}) }

\* The five reads of _update_meters_endpoint in their order (lines 344-358):
\* the entry (counted from 1) and the key each helper of lines 73-95 reads.
MeterReads ==
    << <<1, "state">>, <<2, "state">>, <<2, "measurementType">>,
       <<1, "phaseCount">>, <<2, "phaseCount">> >>
Readable(json, i) ==
    /\ MeterReads[i][1] <= Len(json)
    /\ MeterReads[i][2] \in DOMAIN json[MeterReads[i][1]]
\* The first read that raises (IndexError on a missing entry, KeyError on a
\* missing key), or 6 when all five succeed.
FirstUnreadable(json) ==
    IF \A i \in 1..5 : Readable(json, i) THEN 6
    ELSE CHOOSE i \in 1..5 :
            ~Readable(json, i) /\ \A j \in 1..(i - 1) : Readable(json, j)
MeterRead(json, i) ==
    CASE i = 1 -> has_production_metering_setup(json)
      [] i = 2 -> has_consumption_metering_setup(json)
      [] i = 3 -> has_net_consumption_meters_type(json)
      [] i = 4 -> get_production_meters_phase_count(json)
      [] i = 5 -> get_consumption_meters_phase_count(json)
\* The assignments made one after the other: a field is assigned when its
\* read and every read before it succeeded.
AssignedMeters(json, before) ==
    [i \in 1..5 |->
        IF i < FirstUnreadable(json) THEN MeterRead(json, i) ELSE before[i]]

\* The capability fields before the refresh: as constructed, or as an
\* earlier refresh left them.
EarlierMeters ==
    { <<FALSE, FALSE, FALSE, 0, 0>>, <<TRUE, TRUE, TRUE, 3, 3>>,
      <<FALSE, TRUE, FALSE, 1, 1>> }

InitShort ==
    /\ https_flag = ""
    /\ use_enlighten_owner_token = FALSE
    /\ fetch_retries = FetchRetries(FETCH_RETRIES)
    /\ do_not_use_production_json = FALSE
    /\ get_inverters = TRUE
    /\ password = "given"
    /\ endpoint_type = ENVOY_MODEL_S
    /\ has_grid_status = TRUE
    /\ serial_number_last_six = "None"
    /\ endpoint_results = [a \in SnapshotAttrs |-> None]
    /\ fetched = {}
    /\ authorization_header = [set |-> FALSE, token |-> EmptyToken]
    /\ cookies = FALSE
    /\ token = EmptyToken
    /\ store_update_pending = FALSE
    /\ store = EmptyToken
    /\ info_next_refresh_time = 0
    /\ meters_next_refresh_time = 0
    /\ now = 0
    /\ pc = "idle" /\ stack = <<>> /\ ret = NoRet
    /\ running = "" /\ result = "none"
    /\ entry_token = "none" /\ first_req = "none" /\ last_get = NoGet
    /\ \E before \in EarlierMeters, json \in ShortResponses :
          /\ isProductionMeteringEnabled = before[1]
          /\ isConsumptionMeteringEnabled = before[2]
          /\ net_consumption_meters_type = before[3]
          /\ production_meters_phase_count = before[4]
          /\ consumption_meters_phase_count = before[5]
          /\ call = [op |-> "_update_meters_endpoint", json |-> json,
                     before |-> before]
    /\ value = NoValue

\* _update_meters_endpoint, lines 336-361, on the response drawn above: the
\* five assignments up to the first read that raises; the next refresh time
\* is set after them.
update_meters_endpoint_short ==
    /\ call.op = "_update_meters_endpoint"
    /\ value = NoValue
    /\ LET after == AssignedMeters(call.json, call.before)
           bad == FirstUnreadable(call.json)
       IN /\ isProductionMeteringEnabled' = after[1]
          /\ isConsumptionMeteringEnabled' = after[2]
          /\ net_consumption_meters_type' = after[3]
          /\ production_meters_phase_count' = after[4]
          /\ consumption_meters_phase_count' = after[5]
          /\ IF bad = 6
             THEN /\ value' = Returns(after)
                  /\ meters_next_refresh_time' = now + info_refresh_buffer_seconds
             ELSE /\ value' = Raises(IF MeterReads[bad][1] > Len(call.json)
                                      THEN "IndexError" ELSE "KeyError")
                  /\ UNCHANGED meters_next_refresh_time
    /\ UNCHANGED <<call, config, fields, credential, info_next_refresh_time,
                   now, stack, ret, poll, first_req, last_get>>

NextShort == update_meters_endpoint_short

SpecShort == InitShort /\ [][NextShort]_vars

\* ------------------------------------------- _is_enphase_token_expired
\* The expiry test on its own: a token with any exp claim, any refresh buffer
\* and any clock reading, all epoch seconds that datetime can represent.
Epochs == 0..MaxEpoch

InitExpired ==
    /\ https_flag = "s"
    /\ use_enlighten_owner_token = TRUE
    /\ fetch_retries = FetchRetries(FETCH_RETRIES)
    /\ do_not_use_production_json = FALSE
    /\ get_inverters = TRUE
    /\ password = "given"
    /\ Constructed
    /\ \E e \in Epochs, b \in Epochs, t \in Epochs :
          call = [op |-> "_is_enphase_token_expired", token |-> Token(e),
                  buffer |-> b, now |-> t]
    /\ value = NoValue

\* One call of _is_enphase_token_expired with the arguments drawn above.
is_enphase_token_expired_call ==
    /\ call.op = "_is_enphase_token_expired"
    /\ value = NoValue
    /\ value' = Returns(is_enphase_token_expired(call.token, call.buffer,
                                                 call.now))
    /\ UNCHANGED <<call, config, fields, meters, credential, refresh_times,
                   now, stack, ret, poll, first_req, last_get>>

NextExpired == is_enphase_token_expired_call

SpecExpired == InitExpired /\ [][NextExpired]_vars

\* ------------------------------------------------------------ the accessors
\* The payloads the accessors read.  A body either fails to parse or is a
\* JSON document; a number of a payload is a float, here a whole count of
\* half units (3 is 1.5 W).
NotJson == [parses |-> FALSE, json |-> <<>>]
Json(j) == [parses |-> TRUE, json |-> j]
Absent(snapshot) == snapshot.status = None.status
HalvesPerUnit == 2
Halves == -MaxHalves..MaxHalves

\* Python's int(x) of a float x: the integer part, rounded toward zero.
int(h) ==
    IF h >= 0 THEN h \div HalvesPerUnit ELSE -((-h) \div HalvesPerUnit)

\* Python's None as a returned value, and a "not available" message.
Null == [kind |-> "null"]
Message(m) == [kind |-> "message", text |-> m]

\* response.json() of an accessor: AttributeError on a snapshot that is None,
\* JSONDecodeError on a body that does not parse.
JsonOf(snapshot) ==
    IF Absent(snapshot) THEN Raises("AttributeError")
    ELSE IF ~snapshot.body.parses THEN Raises("JSONDecodeError")
    ELSE Returns(snapshot.body.json)

phase_map == [l1 |-> 0, l2 |-> 1, l3 |-> 2]
PhaseSelectors == {"l1", "l2", "l3"}

\* Variant: a phase test that also admits the single phase of a one-phase
\* meter.
PhaseConfigured_single(report, phase) ==
    \/ /\ production_meters_phase_count > 0
       /\ phase_map[phase] < production_meters_phase_count
       /\ report = "production"
    \/ /\ consumption_meters_phase_count > 0
       /\ phase_map[phase] < consumption_meters_phase_count
       /\ report # "production"

\* The test of lines 779-780 and 809-810: the phase asked for is one of the
\* phases configured on the meter the report belongs to.
PhaseConfigured(report, phase) ==
    \/ /\ production_meters_phase_count > 1
       /\ phase_map[phase] < production_meters_phase_count
       /\ report = "production"
    \/ /\ consumption_meters_phase_count > 1
       /\ phase_map[phase] < consumption_meters_phase_count
       /\ report # "production"

\* _meters_readings_value, lines 750-786.  A key a payload lacks is a
\* KeyError, caught where the source catches it.
readings_report_map ==
    [r \in {"production", "net-consumption", "total-consumption"} |->
        IF r = "production" THEN 0 ELSE 1]
meters_readings_value(field, report, phase) ==
    LET snapshot == endpoint_results["endpoint_meters_readings_json_results"]
        entry == readings_report_map[report] + 1
    IN
    IF /\ endpoint_type = ENVOY_MODEL_S
       /\ \/ /\ report = "net-consumption"
             /\ isConsumptionMeteringEnabled /\ net_consumption_meters_type
          \/ report = "production" /\ isProductionMeteringEnabled
          \/ /\ report = "total-consumption"
             /\ isConsumptionMeteringEnabled /\ ~net_consumption_meters_type
       /\ ~Absent(snapshot)
    THEN IF ~snapshot.body.parses THEN Raises("JSONDecodeError")
         ELSE LET raw_json == snapshot.body.json IN
              IF phase = "None"
              THEN IF \/ entry > Len(raw_json)
                      \/ field \notin DOMAIN raw_json[entry]
                   THEN Null
                   ELSE Returns(raw_json[entry][field])
              ELSE IF PhaseConfigured(report, phase)
                   THEN IF \/ entry > Len(raw_json)
                           \/ "channels" \notin DOMAIN raw_json[entry]
                           \/ phase_map[phase] + 1 > Len(raw_json[entry].channels)
                           \/ field \notin
                                 DOMAIN raw_json[entry].channels[phase_map[phase] + 1]
                        THEN Null
                        ELSE Returns(raw_json[entry]
                                         .channels[phase_map[phase] + 1][field])
                   ELSE Null
    ELSE Null

\* _meters_report_value, lines 788-816.  The system value is read outside
\* any try.
reports_report_map ==
    [r \in {"production", "net-consumption", "total-consumption"} |->
        IF r = "production" THEN 0 ELSE IF r = "net-consumption" THEN 1 ELSE 2]
meters_report_value(field, report, phase) ==
    LET snapshot == endpoint_results["endpoint_meters_reports_json_results"]
        entry == reports_report_map[report] + 1
    IN
    IF /\ endpoint_type = ENVOY_MODEL_S
       /\ \/ /\ report = "net-consumption"
             /\ isConsumptionMeteringEnabled /\ net_consumption_meters_type
          \/ report = "production" /\ isProductionMeteringEnabled
          \/ report = "total-consumption" /\ isConsumptionMeteringEnabled
       /\ ~Absent(snapshot)
    THEN IF ~snapshot.body.parses THEN Raises("JSONDecodeError")
         ELSE LET raw_json == snapshot.body.json IN
              IF phase = "None"
              THEN IF entry > Len(raw_json) THEN Raises("IndexError")
                   ELSE IF "cumulative" \notin DOMAIN raw_json[entry]
                   THEN Raises("KeyError")
                   ELSE IF field \notin DOMAIN raw_json[entry].cumulative
                   THEN Raises("KeyError")
                   ELSE Returns(raw_json[entry].cumulative[field])
              ELSE IF PhaseConfigured(report, phase)
                   THEN IF \/ entry > Len(raw_json)
                           \/ "lines" \notin DOMAIN raw_json[entry]
                           \/ phase_map[phase] + 1 > Len(raw_json[entry].lines)
                           \/ field \notin
                                 DOMAIN raw_json[entry].lines[phase_map[phase] + 1]
                        THEN Null
                        ELSE Returns(raw_json[entry]
                                         .lines[phase_map[phase] + 1][field])
                   ELSE Null
    ELSE Null

\* raw_json[key] of a payload read outside any try: KeyError when the key is
\* missing.
Key(raw_json, key) ==
    IF raw_json.kind = "raise" THEN raw_json
    ELSE IF key \notin DOMAIN raw_json.v THEN Raises("KeyError")
    ELSE Returns(raw_json.v[key])
\* raw_json[i] of a list read outside any try, i counted from 0.
Item(raw_json, i) ==
    IF raw_json.kind = "raise" THEN raw_json
    ELSE IF i + 1 > Len(raw_json.v) THEN Raises("IndexError")
    ELSE Returns(raw_json.v[i + 1])
\* return int(x)
IntOf(x) == IF x.kind = "raise" THEN x ELSE Returns(int(x.v))

\* The end of production_phase, consumption and net_consumption: None
\* becomes a message for the system value and stays None for a phase, a
\* number becomes int(number).
Reported(jsondata, phase, message) ==
    IF jsondata.kind = "raise" THEN jsondata
    ELSE IF jsondata = Null
         THEN IF phase = "None" THEN Message(message) ELSE Null
         ELSE Returns(int(jsondata.v))

\* production_phase, lines 849-854.
production_phase(phase) ==
    Reported(meters_report_value("currW", "production", phase), phase,
             "message_consumption_not_available")

\* What a regex of lines 23-30 finds on the legacy page: no match, or the
\* number of group 1, a decimal text held as its count of hundredths ("1.25"
\* is 125), and the unit of group 2.
NoMatch == [match |-> FALSE, number |-> 0, unit |-> ""]
Match(c, u) == [match |-> TRUE, number |-> c, unit |-> u]
CentisPerUnit == 100

\* int(float(text) * k) in IEEE 754 double arithmetic, as Python computes
\* it: the double nearest to 2.01 times 1000 is 2009.9999999999998, so the
\* integer part falls one short of the exact product.  The pairs listed are
\* all those with a text below 2.10.
DoubleProductShort ==
    { <<201, 1000>>, <<203, 1000>>, <<201, 1000000>>, <<203, 1000000>>,
      <<205, 1000000>>, <<207, 1000000>>, <<209, 1000000>> }
int_of_product(c, k) ==
    IF <<c, k>> \in DoubleProductShort
    THEN (c * k) \div CentisPerUnit - 1
    ELSE (c * k) \div CentisPerUnit

\* The legacy branch of production, lines 834-846.
production_scraped(m) ==
    IF ~m.match THEN Raises("RuntimeError")
    ELSE IF m.unit = "kW" THEN Returns(int_of_product(m.number, 1000))
    ELSE IF m.unit = "mW" THEN Returns(int_of_product(m.number, 1000000))
    ELSE Returns(int_of_product(m.number, 1))

\* The legacy branch of daily_production, seven_days_production and
\* lifetime_production, lines 886-900, 968-982 and 1014-1028.
energy_scraped(m) ==
    IF ~m.match THEN Raises("RuntimeError")
    ELSE IF m.unit = "kWh" THEN Returns(int_of_product(m.number, 1000))
    ELSE IF m.unit = "MWh" THEN Returns(int_of_product(m.number, 1000000))
    ELSE Returns(int_of_product(m.number, 1))

\* self.endpoint_production_results.text of a legacy accessor, searched.
LegacyPage ==
    IF Absent(endpoint_results["endpoint_production_results"])
    THEN Raises("AttributeError")
    ELSE Returns(endpoint_results["endpoint_production_results"].body)

\* Variant: the system production read from production.json whatever the
\* production metering is.
production_from_summary(phase) ==
    IF phase # "None" THEN production_phase(phase)
    ELSE IntOf(Key(Item(Key(
             JsonOf(endpoint_results["endpoint_production_json_results"]),
             "production"), 0), "wNow"))

\* production, lines 818-847.
production(phase) ==
    IF phase # "None" THEN production_phase(phase)
    ELSE IF endpoint_type = ENVOY_MODEL_S
    THEN IF isProductionMeteringEnabled
         THEN IntOf(Key(Key(Item(
                  JsonOf(endpoint_results["endpoint_meters_reports_json_results"]),
                  0), "cumulative"), "currW"))
         ELSE IntOf(Key(Item(Key(
                  JsonOf(endpoint_results["endpoint_production_json_results"]),
                  "production"), 0), "wNow"))
    ELSE IF endpoint_type = ENVOY_MODEL_C
    THEN IntOf(Key(JsonOf(endpoint_results["endpoint_production_v1_results"]),
                   "wattsNow"))
    ELSE IF endpoint_type = ENVOY_MODEL_LEGACY
    THEN IF LegacyPage.kind = "raise" THEN LegacyPage
         ELSE production_scraped(LegacyPage.v.current)
    ELSE Raises("UnboundLocalError")

\* consumption, lines 856-861.
consumption(phase) ==
    Reported(meters_report_value("currW", "total-consumption", phase), phase,
             "message_consumption_not_available")

\* net_consumption, lines 863-868.
net_consumption(phase) ==
    Reported(meters_readings_value("instantaneousDemand", "net-consumption",
                                   phase), phase,
             "message_consumption_not_available")

\* daily_production_phase, lines 903-918.
daily_production_phase(phase) ==
    IF /\ endpoint_type = ENVOY_MODEL_S /\ isProductionMeteringEnabled
       /\ production_meters_phase_count > 1
       /\ phase_map[phase] < production_meters_phase_count
       /\ ~do_not_use_production_json
    THEN LET raw_json ==
                 JsonOf(endpoint_results["endpoint_production_json_results"])
         IN IF raw_json.kind = "raise" THEN raw_json
            ELSE IF \/ Len(raw_json.v.production) < 2
                    \/ phase_map[phase] + 1 > Len(raw_json.v.production[2].lines)
                 THEN Null
                 ELSE Returns(int(raw_json.v.production[2]
                                      .lines[phase_map[phase] + 1].whToday))
    ELSE Null

\* daily_consumption_phase, lines 936-953.
daily_consumption_phase(phase) ==
    IF /\ endpoint_type = ENVOY_MODEL_S /\ isConsumptionMeteringEnabled
       /\ consumption_meters_phase_count > 1
       /\ phase_map[phase] < consumption_meters_phase_count
    THEN IF do_not_use_production_json THEN Null
         ELSE LET raw_json ==
                      JsonOf(endpoint_results["endpoint_production_json_results"])
              IN IF raw_json.kind = "raise" THEN raw_json
                 ELSE IF \/ Len(raw_json.v.consumption) < 1
                         \/ phase_map[phase] + 1
                               > Len(raw_json.v.consumption[1].lines)
                      THEN Null
                      ELSE Returns(int(raw_json.v.consumption[1]
                                           .lines[phase_map[phase] + 1].whToday))
    ELSE Null

\* daily_production, lines 870-901.
daily_production(phase) ==
    IF phase # "None" THEN daily_production_phase(phase)
    ELSE IF endpoint_type = ENVOY_MODEL_S /\ isProductionMeteringEnabled
    THEN IF do_not_use_production_json
         THEN Message("message_production_not_available")
         ELSE IntOf(Key(Item(Key(
                  JsonOf(endpoint_results["endpoint_production_json_results"]),
                  "production"), 1), "whToday"))
    ELSE IF \/ endpoint_type = ENVOY_MODEL_C
            \/ endpoint_type = ENVOY_MODEL_S /\ ~isProductionMeteringEnabled
    THEN IntOf(Key(JsonOf(endpoint_results["endpoint_production_v1_results"]),
                   "wattHoursToday"))
    ELSE IF endpoint_type = ENVOY_MODEL_LEGACY
    THEN IF LegacyPage.kind = "raise" THEN LegacyPage
         ELSE energy_scraped(LegacyPage.v.today)
    ELSE Raises("UnboundLocalError")

\* seven_days_production, lines 955-983.
seven_days_production ==
    IF endpoint_type = ENVOY_MODEL_S /\ isProductionMeteringEnabled
    THEN IF do_not_use_production_json
         THEN Message("message_production_not_available")
         ELSE IntOf(Key(Item(Key(
                  JsonOf(endpoint_results["endpoint_production_json_results"]),
                  "production"), 1), "whLastSevenDays"))
    ELSE IF \/ endpoint_type = ENVOY_MODEL_C
            \/ endpoint_type = ENVOY_MODEL_S /\ ~isProductionMeteringEnabled
    THEN IntOf(Key(JsonOf(endpoint_results["endpoint_production_v1_results"]),
                   "wattHoursSevenDays"))
    ELSE IF endpoint_type = ENVOY_MODEL_LEGACY
    THEN IF LegacyPage.kind = "raise" THEN LegacyPage
         ELSE energy_scraped(LegacyPage.v.week)
    ELSE Raises("UnboundLocalError")

\* lifetime_production_phase, lines 1031-1036.
lifetime_production_phase(phase) ==
    Reported(meters_report_value("whDlvdCum", "production", phase), phase,
             "message_production_not_available")

\* lifetime_production, lines 998-1029.
lifetime_production(phase) ==
    IF phase # "None" THEN lifetime_production_phase(phase)
    ELSE IF endpoint_type = ENVOY_MODEL_S
    THEN IF isProductionMeteringEnabled
         THEN IntOf(Key(Key(Item(
                  JsonOf(endpoint_results["endpoint_meters_reports_json_results"]),
                  0), "cumulative"), "whDlvdCum"))
         ELSE IntOf(Key(Item(Key(
                  JsonOf(endpoint_results["endpoint_production_json_results"]),
                  "production"), 0), "whLifetime"))
    ELSE IF endpoint_type = ENVOY_MODEL_C
    THEN IntOf(Key(JsonOf(endpoint_results["endpoint_production_v1_results"]),
                   "wattHoursLifetime"))
    ELSE IF endpoint_type = ENVOY_MODEL_LEGACY
    THEN IF LegacyPage.kind = "raise" THEN LegacyPage
         ELSE energy_scraped(LegacyPage.v.life)
    ELSE Raises("UnboundLocalError")

\* daily_consumption, lines 919-933.
daily_consumption(phase) ==
    IF phase # "None" THEN daily_consumption_phase(phase)
    ELSE IF endpoint_type = ENVOY_MODEL_S /\ isConsumptionMeteringEnabled
    THEN IF do_not_use_production_json
         THEN Message("message_consumption_not_available")
         ELSE IntOf(Key(Item(Key(
                  JsonOf(endpoint_results["endpoint_production_json_results"]),
                  "consumption"), 0), "whToday"))
    ELSE Message("message_consumption_not_available")

\* seven_days_consumption, lines 985-996.
seven_days_consumption ==
    IF endpoint_type = ENVOY_MODEL_S /\ isConsumptionMeteringEnabled
    THEN IF do_not_use_production_json
         THEN Message("message_production_not_available")
         ELSE IntOf(Key(Item(Key(
                  JsonOf(endpoint_results["endpoint_production_json_results"]),
                  "consumption"), 0), "whLastSevenDays"))
    ELSE Message("message_consumption_not_available")

\* lifetime_net_production, lines 1038-1043.
lifetime_net_production(phase) ==
    Reported(meters_readings_value("actEnergyRcvd", "net-consumption", phase),
             phase, "message_consumption_not_available")

\* lifetime_consumption, lines 1045-1050.
lifetime_consumption(phase) ==
    Reported(meters_report_value("whDlvdCum", "total-consumption", phase),
             phase, "message_consumption_not_available")

\* lifetime_net_consumption, lines 1052-1057.
lifetime_net_consumption(phase) ==
    Reported(meters_readings_value("actEnergyDlvd", "net-consumption", phase),
             phase, "message_consumption_not_available")

\* inverters_production, lines 1059-1079: the mapping from serial number to
\* the last report of that inverter (a later item of the list replaces an
\* earlier one of the same serial number); every error of the loop is caught.
inverters_production ==
    IF ~get_inverters THEN Null
    ELSE LET items == JsonOf(endpoint_results["endpoint_production_inverters"])
         IN
         IF items.kind = "raise" THEN Null
         ELSE IF \E i \in 1..Len(items.v) :
                    {"serialNumber", "lastReportWatts", "lastReportDate"}
                        \ DOMAIN items.v[i] # {}
         THEN Null
         ELSE LET last(serial) ==
                      CHOOSE i \in 1..Len(items.v) :
                          /\ items.v[i].serialNumber = serial
                          /\ \A j \in (i + 1)..Len(items.v) :
                                items.v[j].serialNumber # serial
              IN Returns([serial \in {items.v[i].serialNumber :
                                          i \in 1..Len(items.v)} |->
                             <<items.v[last(serial)].lastReportWatts,
                               items.v[last(serial)].lastReportDate>>])

\* battery_storage, lines 1081-1103: only the JSONDecodeError of the summary
\* is caught.
battery_storage ==
    IF endpoint_type \in {ENVOY_MODEL_C, ENVOY_MODEL_LEGACY}
    THEN Message("message_battery_not_available")
    ELSE LET raw_json ==
                 JsonOf(endpoint_results["endpoint_production_json_results"])
             storage == Item(Key(raw_json, "storage"), 0)
             ensemble == endpoint_results["endpoint_ensemble_json_results"]
         IN
         IF raw_json = Raises("JSONDecodeError") THEN Null
         ELSE IF storage.kind = "raise" THEN storage
         ELSE IF "percentFull" \notin DOMAIN storage.v
         THEN IF Absent(ensemble)
              THEN Message("message_battery_not_available")
              ELSE LET ensemble_json == JsonOf(ensemble) IN
                   IF ensemble_json.kind = "raise" THEN ensemble_json
                   ELSE IF /\ Len(ensemble_json.v) > 0
                           /\ "devices" \in DOMAIN ensemble_json.v[1]
                        THEN Returns(ensemble_json.v[1].devices)
                        ELSE Message("message_battery_not_available")
         ELSE Returns(storage.v)

\* The end of pf, voltage, frequency, consumption_Current and
\* production_Current: float(str(jsondata)) is the number reported.
ReportedFloat(jsondata, phase, message) ==
    IF jsondata.kind = "raise" THEN jsondata
    ELSE IF jsondata = Null
         THEN IF phase = "None" THEN Message(message) ELSE Null
         ELSE jsondata

\* pf, lines 1105-1110.
pf(phase) ==
    ReportedFloat(meters_report_value("pwrFactor", "net-consumption", phase),
                  phase, "message_pf_not_available")

\* voltage, lines 1112-1117.
voltage(phase) ==
    ReportedFloat(meters_report_value("rmsVoltage", "net-consumption", phase),
                  phase, "message_voltage_not_available")

\* frequency, lines 1119-1124.
frequency(phase) ==
    ReportedFloat(meters_report_value("freqHz", "net-consumption", phase),
                  phase, "message_frequency_not_available")

\* consumption_Current, lines 1126-1131.
consumption_Current(phase) ==
    ReportedFloat(meters_report_value("rmsCurrent", "net-consumption", phase),
                  phase, "message_current_consumption_not_available")

\* production_Current, lines 1133-1138.
production_Current(phase) ==
    ReportedFloat(meters_report_value("rmsCurrent", "production", phase),
                  phase, "message_current_production_not_available")

\* What grid_status returns, lines 1140-1148, from the parsed home.json.
grid_status_returned ==
    LET home == endpoint_results["endpoint_home_json_results"] IN
    IF has_grid_status /\ ~Absent(home) /\ home.status = 200
    THEN LET home_json == JsonOf(home) IN
         IF home_json.kind = "raise" THEN home_json
         ELSE IF /\ "enpower" \in DOMAIN home_json.v
                 /\ "grid_status" \in DOMAIN home_json.v.enpower
              THEN Returns(home_json.v.enpower.grid_status)
              ELSE Null
    ELSE Null

\* envoy_info, lines 1164-1246.  The parsed info.xml is held as the mapping
\* found under envoy_info/device; a snapshot that is no XML makes
\* xmltodict.parse raise, a missing field is a KeyError, and either ends the
\* try block with the fields stored so far.
DeviceFields ==
    [software |-> "software", pn |-> "pn", metered |-> "imeter"]
DeviceKeysStored ==
    LET info == endpoint_results["endpoint_info_results"] IN
    IF Absent(info) \/ ~info.body.parses THEN {}
    ELSE IF "software" \notin DOMAIN info.body.json THEN {}
    ELSE IF "pn" \notin DOMAIN info.body.json THEN {"software"}
    ELSE IF "imeter" \notin DOMAIN info.body.json THEN {"software", "pn"}
    ELSE {"software", "pn", "metered"}
InternalKeys ==
    { "Using-model", "Using-httpsflag", "Using-ProductionMeteringEnabled",
      "Using-ConsumptionMeteringEnabled", "Using-GetInverters",
      "Using-UseEnligthen", "Using-InfoUpdateInterval", "Using-hasgridstatus",
      "Using-FetchRetryCount", "Using-FetchTimeOut", "Using-FetchHoldoff" }
EndpointKeys ==
    [a \in SnapshotAttrs |->
        CASE a = "endpoint_meters_json_results" -> "Endpoint-meters"
          [] a = "endpoint_meters_readings_json_results" ->
                "Endpoint-meters-readings"
          [] a = "endpoint_meters_reports_json_results" ->
                "Endpoint-meters-reports"
          [] a = "endpoint_production_json_results" -> "Endpoint-production_json"
          [] a = "endpoint_production_v1_results" -> "Endpoint-production_v1"
          [] a = "endpoint_production_results" -> "Endpoint-production"
          [] a = "endpoint_production_inverters" ->
                "Endpoint-production_inverters"
          [] a = "endpoint_ensemble_json_results" -> "Endpoint-ensemble_json"
          [] a = "endpoint_home_json_results" -> "Endpoint-home"
          [] a = "endpoint_info_results" -> "Endpoint-info"
          [] a = "endpoint_home_results" -> "legacy-home"]
envoy_info_unguarded ==
    IF Absent(endpoint_results["endpoint_info_results"])
    THEN Raises("AttributeError")
    ELSE IF ~endpoint_results["endpoint_info_results"].body.parses
    THEN Raises("ExpatError")
    ELSE Returns([key \in InternalKeys |-> endpoint_type])
envoy_info ==
    LET info == endpoint_results["endpoint_info_results"]
        attr(key) == CHOOSE a \in SnapshotAttrs : EndpointKeys[a] = key
    IN
    Returns(
      [key \in DeviceKeysStored \cup InternalKeys
                  \cup {EndpointKeys[a] : a \in SnapshotAttrs} |->
         CASE key \in DeviceKeysStored -> info.body.json[DeviceFields[key]]
           [] key = "Using-model" -> endpoint_type
           [] key = "Using-httpsflag" -> https_flag
           [] key = "Using-ProductionMeteringEnabled" ->
                 isProductionMeteringEnabled
           [] key = "Using-ConsumptionMeteringEnabled" ->
                 isConsumptionMeteringEnabled
           [] key = "Using-GetInverters" -> get_inverters
           [] key = "Using-UseEnligthen" -> use_enlighten_owner_token
           [] key = "Using-InfoUpdateInterval" -> info_refresh_buffer_seconds
           [] key = "Using-hasgridstatus" -> has_grid_status
           [] key = "Using-FetchRetryCount" -> fetch_retries
           [] key = "Using-FetchTimeOut" -> "fetch_timeout_seconds"
           [] key = "Using-FetchHoldoff" -> "fetch_holdoff_seconds"
           [] OTHER -> IF Absent(endpoint_results[attr(key)]) THEN Null
                       ELSE Returns(endpoint_results[attr(key)].body)])

\* ------------------------------------------- the accessors, called
\* Well-formed payloads: a report of /ivp/meters/reports, a reading of
\* /ivp/meters/readings and the production.json summary, each with a line
\* per phase.
ReportLine(h) ==
    [currW |-> h, whDlvdCum |-> h, rmsVoltage |-> h, pwrFactor |-> h,
     freqHz |-> h, rmsCurrent |-> h]
Report(h) ==
    [cumulative |-> ReportLine(h),
     lines |-> [i \in 1..MaxPhases |-> ReportLine(h)]]
ReadingLine(h) ==
    [instantaneousDemand |-> h, actEnergyDlvd |-> h, actEnergyRcvd |-> h]
Reading(h) ==
    [instantaneousDemand |-> h, actEnergyDlvd |-> h, actEnergyRcvd |-> h,
     channels |-> [i \in 1..MaxPhases |-> ReadingLine(h)]]
SummaryTotals(w) ==
    [whToday |-> w, whLastSevenDays |-> w, whLifetime |-> w,
     lines |-> [i \in 1..MaxPhases |-> [whToday |-> w, whLifetime |-> w]]]
Summary(w) ==
    [production |-> << [wNow |-> w, whLifetime |-> w], SummaryTotals(w) >>,
     consumption |-> << SummaryTotals(w) >>,
     storage |-> << [percentFull |-> w] >>]
\* The /api/v1/production payload.
V1(w) ==
    [wattsNow |-> w, wattHoursToday |-> w, wattHoursSevenDays |-> w,
     wattHoursLifetime |-> w]
\* The legacy /production page with the same find under each heading.
Page(m, powerunit, energyunit) ==
    [current |-> IF m.match THEN Match(m.number, powerunit) ELSE m,
     today |-> IF m.match THEN Match(m.number, energyunit) ELSE m,
     week |-> IF m.match THEN Match(m.number, energyunit) ELSE m,
     life |-> IF m.match THEN Match(m.number, energyunit) ELSE m]

\* The snapshot a poll of a gateway of kind `model` leaves in attribute a
\* when the gateway answers well: None for an endpoint the poll of that model
\* does not fetch.
StoredByPoll(model, entries, a) ==
    IF a = "endpoint_info_results" THEN Response(200, NotJson)
    ELSE IF model = ENVOY_MODEL_S
    THEN CASE a = "endpoint_production_json_results" ->
                 Response(200, Json(Summary(0)))
           [] a = "endpoint_meters_json_results" -> Response(200, Json(entries))
           [] a = "endpoint_meters_reports_json_results" ->
                 Response(200, Json(<<Report(0), Report(0), Report(0)>>))
           [] a = "endpoint_meters_readings_json_results" ->
                 Response(200, Json(<<Reading(0), Reading(0)>>))
           [] a = "endpoint_production_v1_results" ->
                 IF has_production_metering_setup(entries) THEN None
                 ELSE Response(200, Json(V1(0)))
           [] a \in {"endpoint_production_results", "endpoint_home_results"} ->
                 None
           [] OTHER -> Response(200, Json(<<>>))
    ELSE IF model = ENVOY_MODEL_C
    THEN CASE a = "endpoint_production_v1_results" -> Response(200, Json(V1(0)))
           [] a = "endpoint_production_inverters" -> Response(200, Json(<<>>))
           [] OTHER -> None
    ELSE CASE a = "endpoint_production_results" ->
                 Response(200, Page(NoMatch, "W", "Wh"))
           [] a = "endpoint_home_results" -> Response(200, NotJson)
           [] OTHER -> None

\* A reader without token whose getData has just returned from a poll after
\* classification, async_update_data about to read the accessors: a gateway
\* of kind `model`, CT configuration `entries` (resolved as
\* _update_meters_endpoint resolves it) and the snapshots `given`; the
\* other snapshots are what a poll of that model stores from a gateway that
\* answers well.
AfterPoll(model, entries, given) ==
    /\ https_flag = ""
    /\ use_enlighten_owner_token = FALSE
    /\ fetch_retries = FetchRetries(FETCH_RETRIES)
    /\ get_inverters = (model # ENVOY_MODEL_LEGACY)
    /\ password = "given"
    /\ endpoint_type = model
    /\ has_grid_status = (model = ENVOY_MODEL_S)
    /\ serial_number_last_six = "None"
    /\ isProductionMeteringEnabled =
          (model = ENVOY_MODEL_S /\ has_production_metering_setup(entries))
    /\ isConsumptionMeteringEnabled =
          (model = ENVOY_MODEL_S /\ has_consumption_metering_setup(entries))
    /\ net_consumption_meters_type =
          (model = ENVOY_MODEL_S /\ has_net_consumption_meters_type(entries))
    /\ production_meters_phase_count =
          IF model = ENVOY_MODEL_S
          THEN get_production_meters_phase_count(entries) ELSE 0
    /\ consumption_meters_phase_count =
          IF model = ENVOY_MODEL_S
          THEN get_consumption_meters_phase_count(entries) ELSE 0
    /\ endpoint_results =
          [a \in SnapshotAttrs |->
             IF a \in DOMAIN given THEN given[a] ELSE StoredByPoll(model, entries, a)]
    /\ authorization_header = [set |-> FALSE, token |-> EmptyToken]
    /\ cookies = FALSE
    /\ token = EmptyToken
    /\ store_update_pending = FALSE
    /\ store = EmptyToken
    /\ fetched = {}
    /\ info_next_refresh_time = info_refresh_buffer_seconds
    /\ meters_next_refresh_time =
          IF model = ENVOY_MODEL_S THEN info_refresh_buffer_seconds ELSE 0
    /\ now = 0
    /\ pc = "returned"
    /\ stack = <<>>
    /\ ret = NoRet
    /\ running = "_update"
    /\ result = "ok"
    /\ entry_token = "empty"
    /\ first_req = IF model = ENVOY_MODEL_S THEN ENDPOINT_URL_METERS_REPORTS
                   ELSE IF model = ENVOY_MODEL_C THEN ENDPOINT_URL_PRODUCTION_V1
                   ELSE ENDPOINT_URL_PRODUCTION
    /\ last_get = NoGet

\* One accessor called, by name, with the phase it is asked for.
AccessorCall(name, returned) ==
    /\ call.op = name
    /\ value = NoValue
    /\ value' = returned
    /\ UNCHANGED <<call, config, fields, meters, credential, refresh_times,
                   now, stack, ret, poll, first_req, last_get>>

production_call == AccessorCall("production", production(call.phase))
consumption_call == AccessorCall("consumption", consumption(call.phase))
net_consumption_call ==
    AccessorCall("net_consumption", net_consumption(call.phase))
daily_production_phase_call ==
    AccessorCall("daily_production_phase", daily_production_phase(call.phase))
daily_consumption_phase_call ==
    AccessorCall("daily_consumption_phase", daily_consumption_phase(call.phase))

daily_production_call ==
    AccessorCall("daily_production", daily_production(call.phase))
seven_days_production_call ==
    AccessorCall("seven_days_production", seven_days_production)
lifetime_production_call ==
    AccessorCall("lifetime_production", lifetime_production(call.phase))

\* The system values of a legacy gateway: a page on which each regex finds
\* nothing, or a number of up to two decimals with any unit prefix.
UnitPrefixes == {"", "k", "M"}
PowerUnit(prefix) ==
    CASE prefix = "" -> "W" [] prefix = "k" -> "kW" [] prefix = "M" -> "MW"
EnergyUnit(prefix) ==
    CASE prefix = "" -> "Wh" [] prefix = "k" -> "kWh" [] prefix = "M" -> "MWh"
InitLegacy ==
    /\ do_not_use_production_json = FALSE
    /\ \E m \in {NoMatch} \cup {Match(c, "") : c \in 0..MaxCentis},
          prefix \in UnitPrefixes :
          AfterPoll(ENVOY_MODEL_LEGACY, <<>>,
                    [endpoint_production_results |->
                        Response(200, Page(m, PowerUnit(prefix),
                                           EnergyUnit(prefix)))])
    /\ call \in [op : {"production", "daily_production", "seven_days_production",
                       "lifetime_production"},
                 phase : {"None"}]
    /\ value = NoValue

NextLegacy ==
    \/ production_call
    \/ daily_production_call
    \/ seven_days_production_call
    \/ lifetime_production_call

SpecLegacy == InitLegacy /\ [][NextLegacy]_vars

daily_consumption_call ==
    AccessorCall("daily_consumption", daily_consumption(call.phase))
seven_days_consumption_call ==
    AccessorCall("seven_days_consumption", seven_days_consumption)
lifetime_net_production_call ==
    AccessorCall("lifetime_net_production", lifetime_net_production(call.phase))
lifetime_consumption_call ==
    AccessorCall("lifetime_consumption", lifetime_consumption(call.phase))
lifetime_net_consumption_call ==
    AccessorCall("lifetime_net_consumption",
                 lifetime_net_consumption(call.phase))
inverters_production_call ==
    AccessorCall("inverters_production", inverters_production)
battery_storage_call == AccessorCall("battery_storage", battery_storage)
pf_call == AccessorCall("pf", pf(call.phase))
voltage_call == AccessorCall("voltage", voltage(call.phase))
frequency_call == AccessorCall("frequency", frequency(call.phase))
consumption_Current_call ==
    AccessorCall("consumption_Current", consumption_Current(call.phase))
production_Current_call ==
    AccessorCall("production_Current", production_Current(call.phase))
envoy_info_call == AccessorCall("envoy_info", envoy_info)

\* grid_status called, lines 1140-1148: the capability flag is dropped on
\* every path that returns None.
grid_status_call_always_clears ==
    /\ call.op = "grid_status"
    /\ value = NoValue
    /\ value' = grid_status_returned
    /\ has_grid_status' = FALSE
    /\ UNCHANGED <<call, config, endpoint_type, get_inverters, password,
                   serial_number_last_six, endpoint_results, fetched, meters,
                   credential, refresh_times, now, stack, ret, poll,
                   first_req, last_get>>
grid_status_call ==
    /\ call.op = "grid_status"
    /\ value = NoValue
    /\ value' = grid_status_returned
    /\ has_grid_status' = (has_grid_status /\ grid_status_returned # Null)
    /\ UNCHANGED <<call, config, endpoint_type, get_inverters, password,
                   serial_number_last_six, endpoint_results, fetched, meters,
                   credential, refresh_times, now, stack, ret, poll,
                   first_req, last_get>>

\* The system values of a gateway of any model whose snapshots are absent
\* (the endpoint answered 404), do not parse, parse to a payload without the
\* entries read ("short": an empty list, a mapping without the keys) or are
\* well-formed.
SnapshotOf(form, json) ==
    CASE form = "absent" -> None
      [] form = "not json" -> Response(500, NotJson)
      [] form = "json" -> Response(200, Json(json))
SnapshotForms == {"absent", "not json", "json"}
HomeJson == [enpower |-> [grid_status |-> "closed"]]
EnsembleJson == << [devices |-> << [serial_num |-> "b1", percentFull |-> 1] >>] >>
InvertersJson ==
    << [serialNumber |-> "i1", lastReportWatts |-> 1, lastReportDate |-> 0],
       [serialNumber |-> "i2", lastReportWatts |-> 0, lastReportDate |-> 0] >>
InfoXml == [software |-> "D7", pn |-> "800", imeter |-> "true"]
SummaryWithoutBattery == [Summary(1) EXCEPT !.storage = << [activeCount |-> 0] >>]
SystemSnapshot(form, json, short) ==
    IF form = "short" THEN Response(200, Json(short)) ELSE SnapshotOf(form, json)
SystemForms == SnapshotForms \cup {"short"}
SystemEntries(types) == {e \in MeterEntries(types) : e.phaseCount = 1}
SystemAccessors ==
    {"production", "consumption", "net_consumption", "daily_production",
     "seven_days_production", "lifetime_production", "daily_consumption",
     "seven_days_consumption", "lifetime_net_production",
     "lifetime_consumption", "lifetime_net_consumption",
     "inverters_production", "battery_storage", "pf", "voltage", "frequency",
     "consumption_Current", "production_Current", "grid_status", "envoy_info"}
SystemGiven(model, entries, f, g, h) ==
    LET attrs ==
            {"endpoint_info_results"}
            \cup (IF model = ENVOY_MODEL_LEGACY THEN {}
                  ELSE {"endpoint_production_inverters"})
            \cup (IF model = ENVOY_MODEL_C
                     \/ (model = ENVOY_MODEL_S
                         /\ ~has_production_metering_setup(entries))
                  THEN {"endpoint_production_v1_results"} ELSE {})
            \cup (IF model = ENVOY_MODEL_S
                  THEN {"endpoint_production_json_results",
                        "endpoint_meters_reports_json_results",
                        "endpoint_meters_readings_json_results",
                        "endpoint_ensemble_json_results",
                        "endpoint_home_json_results"}
                  ELSE {})
    IN
    [a \in attrs |->
        CASE a = "endpoint_info_results" ->
                SystemSnapshot(h, InfoXml, [software |-> "D7"])
          [] a = "endpoint_production_inverters" ->
                SystemSnapshot(h, InvertersJson, << [serialNumber |-> "i1"] >>)
          [] a = "endpoint_production_v1_results" ->
                SystemSnapshot(h, V1(1), <<>>)
          [] a = "endpoint_production_json_results" ->
                IF g = "no battery"
                THEN Response(200, Json(SummaryWithoutBattery))
                ELSE SystemSnapshot(g, Summary(1), <<>>)
          [] a = "endpoint_meters_reports_json_results" ->
                SystemSnapshot(f, <<Report(1), Report(1), Report(1)>>, <<>>)
          [] a = "endpoint_meters_readings_json_results" ->
                SystemSnapshot(f, <<Reading(1), Reading(1)>>, <<>>)
          [] a = "endpoint_ensemble_json_results" ->
                SystemSnapshot(h, EnsembleJson, <<>>)
          [] a = "endpoint_home_json_results" ->
                SystemSnapshot(h, HomeJson, <<>>)]

InitSystem ==
    /\ do_not_use_production_json \in BOOLEAN
    /\ \E model \in {ENVOY_MODEL_S, ENVOY_MODEL_C, ENVOY_MODEL_LEGACY},
          e0 \in SystemEntries({"production"}),
          e1 \in SystemEntries({"net-consumption", "total-consumption"}),
          f \in SystemForms, g \in SystemForms \cup {"no battery"},
          h \in SystemForms :
          AfterPoll(model, <<e0, e1>>, SystemGiven(model, <<e0, e1>>, f, g, h))
    /\ call \in [op : SystemAccessors, phase : {"None"}]
    /\ value = NoValue

NextSystem ==
    \/ production_call
    \/ consumption_call
    \/ net_consumption_call
    \/ daily_production_call
    \/ seven_days_production_call
    \/ lifetime_production_call
    \/ daily_consumption_call
    \/ seven_days_consumption_call
    \/ lifetime_net_production_call
    \/ lifetime_consumption_call
    \/ lifetime_net_consumption_call
    \/ inverters_production_call
    \/ battery_storage_call
    \/ pf_call
    \/ voltage_call
    \/ frequency_call
    \/ consumption_Current_call
    \/ production_Current_call
    \/ grid_status_call
    \/ envoy_info_call

SpecSystem == InitSystem /\ [][NextSystem]_vars

\* The system values of a metered gateway: any CT configuration and any
\* readings in well-formed payloads.
InitMetered ==
    /\ do_not_use_production_json = FALSE
    /\ \E e0 \in MeterEntries({"production"}),
          e1 \in MeterEntries({"net-consumption", "total-consumption"}),
          p \in Halves, c \in Halves, w \in Halves :
          AfterPoll(ENVOY_MODEL_S, <<e0, e1>>,
                    [endpoint_production_json_results |->
                        Response(200, Json(Summary(w))),
                     endpoint_meters_reports_json_results |->
                        Response(200, Json(<<Report(p), Report(0), Report(c)>>)),
                     endpoint_meters_readings_json_results |->
                        Response(200, Json(<<Reading(p), Reading(0)>>))])
    /\ call \in [op : {"production", "consumption"}, phase : {"None"}]
    /\ value = NoValue

NextMetered ==
    \/ production_call
    \/ consumption_call

SpecMetered == InitMetered /\ [][NextMetered]_vars

\* The phase values: a gateway of any model and CT configuration whose
\* snapshots are absent (the endpoint answered 404), do not parse (it
\* answered 500) or are well-formed, asked for any phase.
PhaseAccessors ==
    {"production", "consumption", "net_consumption", "daily_production_phase",
     "daily_consumption_phase"}

InitPhases ==
    /\ do_not_use_production_json \in BOOLEAN
    /\ \E model \in {ENVOY_MODEL_S, ENVOY_MODEL_C, ENVOY_MODEL_LEGACY},
          e0 \in MeterEntries({"production"}),
          e1 \in MeterEntries({"net-consumption", "total-consumption"}),
          f \in SnapshotForms, g \in SnapshotForms :
          AfterPoll(model, <<e0, e1>>,
                    IF model = ENVOY_MODEL_S
                    THEN [endpoint_production_json_results |->
                             SnapshotOf(g, Summary(1)),
                          endpoint_meters_reports_json_results |->
                             SnapshotOf(f, <<Report(1), Report(1), Report(1)>>),
                          endpoint_meters_readings_json_results |->
                             SnapshotOf(f, <<Reading(1), Reading(1)>>)]
                    ELSE <<>>)
    /\ call \in [op : PhaseAccessors, phase : PhaseSelectors]
    /\ value = NoValue

NextPhases ==
    \/ production_call
    \/ consumption_call
    \/ net_consumption_call
    \/ daily_production_phase_call
    \/ daily_consumption_phase_call

SpecPhases == InitPhases /\ [][NextPhases]_vars

\* ------------------------------------------------------------ properties
ProductionJson == endpoint_results["endpoint_production_json_results"]
Answered401 == ProductionJson # None /\ ProductionJson.status = 401
AnsweredBothSections ==
    /\ ProductionJson # None /\ ProductionJson.status = 200
    /\ has_production_and_consumption(ProductionJson.body)
\* The step just taken was a GET answered with status `s` / with a failure.
GetAnswered(s) == last_get.answer.kind = "resp" /\ last_get.answer.status = s
GetFailed == last_get.answer.kind = "exc"
FinalAttempt == last_get.attempt = fetch_retries
\* The call whose GET was just answered is over: its frame is gone and
\* nothing was called in its place.
CallOver == Len(stack) = last_get.depth - 1
\* The frame of the call whose GET was just answered.
Frame == stack[last_get.depth]

\* C1: once endpoint_type holds a model kind, no step changes it and no
\* getData starts detect_model again, whatever the earlier polls returned.
C1_ModelKindSetOnce ==
    [][endpoint_type # NoModel =>
          /\ endpoint_type' = endpoint_type
          /\ (running # "detect_model" => running' # "detect_model")]_vars
\* A later poll of a classified gateway fails in _update.
C1_LaterPollFails ==
    /\ running = "_update" /\ endpoint_type = ENVOY_MODEL_C
    /\ pc = "returned" /\ result = "TransportError"

\* C2: a detection pass that has received production.json with status 200
\* and both sections ends with the metered model kind recorded, and only
\* such a pass does.
C2_MeteredExactlyWhenBothSections ==
    pc = "returned" /\ running = "detect_model" =>
        (endpoint_type = ENVOY_MODEL_S <=> AnsweredBothSections)

\* C3: while the production.json snapshot of a detection pass is a 401, the
\* pass is at the metered probe or before it, never at the production-only or
\* legacy probe; the 401 check ends the pass with the secure-credentials
\* error; and that error and the error of three failed probes tell whether
\* the snapshot was a 401.
C3_Detect401 ==
    /\ [](running = "detect_model" /\ Answered401 =>
             pc \in {"get_full_serial_number", "pc_production_json",
                     "pc_ensemble", "pc_home_json", "detect_401_check",
                     "returned"})
    /\ [](pc = "returned" /\ running = "detect_model" =>
             /\ result = "RuntimeError: secure" => Answered401
             /\ result = "RuntimeError: connect" => ~Answered401)
    /\ [][pc = "detect_401_check" /\ Answered401 =>
             pc' = "returned" /\ result' = "RuntimeError: secure"]_vars
\* Detection in bearer-token mode has ended with the secure-credentials error.
C3_SecureErrorRaised ==
    /\ pc = "returned" /\ running = "detect_model"
    /\ result = "RuntimeError: secure" /\ use_enlighten_owner_token

\* C4: a detection pass does not end at one of its device-info fetches
\* (the info.xml serial-number fetch, the /info refresh).
C4_InfoFetchesBestEffort ==
    [][running = "detect_model" /\ pc \in {"get_full_serial_number", "info"} =>
          pc' # "returned"]_vars

\* C5: in bearer-token mode a 401 on an attempt that is not the last starts
\* the refresh (and nothing else) under the attempt; an attempt in its refresh
\* stays on the stack with its URL until the refresh is over, never starts a
\* second refresh, and goes on to the next attempt for the same URL, after
\* the holdoff when the refresh raised.
C5_HandlerStarted ==
    GetAnswered(401) /\ ~FinalAttempt /\ use_enlighten_owner_token =>
        /\ Len(stack) = last_get.depth + 2
        /\ Frame = FetchFrame(last_get.url, last_get.attempt, "refresh")
        /\ stack[last_get.depth + 1] = RefreshFrame
        /\ Top = FetchFrame(ENDPOINT_URL_CHECK_JWT, 0, "get")
C5_HandlerStep ==
    \A i \in 1..Len(stack) :
        stack[i].op = "fetch" /\ stack[i].pc \in {"refresh", "token", "sleep"} =>
            /\ Len(stack') >= i
            /\ \/ stack'[i] = stack[i]
               \/ stack[i].pc = "refresh" /\ stack'[i] = [stack[i] EXCEPT !.pc = "token"]
               \/ stack[i].pc # "sleep" /\ stack'[i] = [stack[i] EXCEPT !.pc = "sleep"]
               \/ stack'[i] = [stack[i] EXCEPT !.attempt = @ + 1, !.pc = "get"]
C5_RefreshOnceThenSameUrl == []C5_HandlerStarted /\ [][C5_HandlerStep]_vars
\* The second attempt for a URL, made after the first was answered 401, is
\* answered 401 as well and starts its own refresh.
C5_SecondRefresh ==
    /\ GetAnswered(401) /\ ~FinalAttempt /\ use_enlighten_owner_token
    /\ last_get.depth = 1 /\ last_get.attempt = 1
    /\ last_get.url = ENDPOINT_URL_PRODUCTION_V1
    /\ cookies

\* C6: a 401 on the last attempt ends the call with no further request and
\* is handed to the caller as the call's result; nothing is raised.
C6_Final401Returned ==
    GetAnswered(401) /\ FinalAttempt =>
        CallOver /\ ret = RetResp(Response(401, ""), "fetch")
C6_Final401 == GetAnswered(401) /\ FinalAttempt /\ use_enlighten_owner_token
\* C6 as stated: a 401 on the last attempt ends the call with an exception.
C6_Final401Raises ==
    GetAnswered(401) /\ FinalAttempt => CallOver /\ ret.kind = "exc"

\* C7: a transport call makes a bounded number of refresh requests: the
\* token-validation fetch of a refresh does not start a refresh of its own.
C7_RefreshNotNested == FetchDepth <= 2

\* C8: a failed GET with attempts left is followed by the holdoff and then
\* the next attempt; a failed GET on the last attempt (attempt number
\* fetch_retries, counting from 0) ends the call with that failure, and the
\* call raises a GET's failure on no other attempt; a 200 on any attempt
\* ends the call with that response.
C8_FailureStep ==
    /\ GetFailed /\ ~FinalAttempt =>
          /\ Len(stack) = last_get.depth
          /\ Frame = FetchFrame(last_get.url, last_get.attempt, "sleep")
    /\ GetFailed /\ FinalAttempt =>
          CallOver /\ ret = RetExc(last_get.answer.exc, "fetch")
    /\ GetAnswered(200) =>
          /\ CallOver
          /\ ret = RetResp(Response(200, last_get.answer.body), "fetch")
    /\ \A i \in 1..Len(stack) : stack[i].attempt <= fetch_retries
C8_HoldoffStep ==
    stack # <<>> /\ Top.op = "fetch" /\ Top.pc = "sleep" =>
        \/ stack' = stack
        \/ stack' = SetTop([Top EXCEPT !.attempt = @ + 1, !.pc = "get"])
C9_NotFoundIsNone ==
    GetAnswered(404) => CallOver /\ ret = RetResp(None, "fetch")
C9_NotFoundFirstAttempt ==
    /\ GetAnswered(404) /\ last_get.attempt = 0 /\ use_enlighten_owner_token
    /\ ret.kind = "resp"

\* C10: in secure mode a getData that finds the token empty or expired makes
\* the cloud login its first request, a getData that finds it valid does not
\* start with a login, and the token, once set, is replaced only by the token
\* a login issues.
C10_EntryLogin ==
    https_flag = "s" /\ running # "" =>
        /\ entry_token \in {"empty", "expired"} =>
              first_req \in {"none", "login"}
        /\ entry_token \in {"empty", "expired"} /\ first_req = "none" =>
              pc = "getEnphaseToken"
        /\ entry_token = "valid" =>
              first_req # "login" /\ running # "getEnphaseToken"
C10_TokenStep ==
    token' # token =>
        /\ stack # <<>> /\ Top.op = "token" /\ Top.pc = "issue"
        /\ ~token'.empty
C10_LoginAtEntry == []C10_EntryLogin /\ [][C10_TokenStep]_vars
\* A poll found the token expired, logged in and holds a valid token again.
C10_LoginAfterExpiry ==
    /\ https_flag = "s" /\ entry_token = "expired" /\ first_req = "login"
    /\ TokenState = "valid" /\ running \in {"detect_model", "_update"}

\* C11: the token is judged expired exactly when the clock is at or past the
\* exp claim less the refresh buffer: for every exp, buffer and now the call
\* returns true if and only if now >= exp - buffer.
C11_ExpiredIffAtOrPast ==
    (call.op = "_is_enphase_token_expired" /\ value # NoValue)
        => /\ value.kind = "return"
           /\ value.v <=> call.now >= call.token.exp - call.buffer

\* The boundary: the clock reads exactly exp - buffer, with a buffer in
\* force, and the call has answered that the token is expired.
C11_ExpiredAtBoundary ==
    /\ call.op = "_is_enphase_token_expired"
    /\ call.buffer > 0
    /\ call.now = call.token.exp - call.buffer
    /\ value = Returns(TRUE)

\* C12: the cookie refresh reports the outcome of its token-validation
\* round-trip without raising: whatever the round-trip answered, the refresh
\* returns a boolean, true exactly when the answer was 200, and then the
\* cookies are stored.
C12_RefreshReportsOutcome ==
    [][(stack # <<>> /\ Top.op = "refresh" /\ ret.kind = "resp")
          => /\ ret'.kind = "bool"
             /\ ret'.flag = (ret.resp.status = 200)
             /\ ret'.flag => cookies']_vars

\* C13: a cloud login that failed (login rejected, token issuance rejected, or
\* the issued token already expired) ends the poll before any gateway
\* request, and the host's poll wrapper reports it as an authentication
\* failure.
C13_LoginFailureIsAuthFailure ==
    (/\ pc = "returned"
     /\ result \in {"RuntimeError: login", "RuntimeError: token",
                    "RuntimeError: expired"})
        => /\ first_req = "login"
           /\ update_failure(result) = "ConfigEntryAuthFailed"

\* C14: when /ivp/meters answers with the body "[]", the refresh leaves the
\* five capability fields (production enabled, consumption enabled,
\* net-consumption type, both phase counts) exactly as they were.
C14_EmptyListKeepsCapability ==
    [][(Returned("meters") /\ ret.kind = "resp" /\ ret.resp.body = "[]")
          => UNCHANGED meters]_vars

\* A gateway whose CT configuration was resolved as enabled on three phases
\* has since answered "[]", and the refresh has stored that answer.
C14_EmptyListAfterEnabled ==
    /\ endpoint_results["endpoint_meters_json_results"].body = "[]"
    /\ pc = "meters_reports"
    /\ isProductionMeteringEnabled /\ isConsumptionMeteringEnabled
    /\ net_consumption_meters_type
    /\ production_meters_phase_count = 3 /\ consumption_meters_phase_count = 3

\* C15: for every well-formed two-entry CT configuration the resolved
\* capability equals the response: production and consumption are enabled
\* exactly when the first and the second entry have state "enabled", the
\* type is net-consumption exactly when the second entry's measurementType
\* is, and the phase counts are the two entries' phaseCount.
C15_ResolvedEqualsResponse ==
    (call.op = "_update_meters_endpoint" /\ value # NoValue)
        => value = Returns(<<call.json[1].state = "enabled",
                             call.json[2].state = "enabled",
                             call.json[2].measurementType = "net-consumption",
                             call.json[1].phaseCount,
                             call.json[2].phaseCount>>)

\* Both meters enabled on three phases, resolved as (True, True, 3, 3).
C15_BothEnabledThreePhases ==
    /\ call.op = "_update_meters_endpoint"
    /\ call.json[1].state = "enabled" /\ call.json[1].phaseCount = 3
    /\ call.json[2].state = "enabled" /\ call.json[2].phaseCount = 3
    /\ value.kind = "return"
    /\ value.v[1] /\ value.v[2] /\ value.v[4] = 3 /\ value.v[5] = 3

\* C16: each interval endpoint (device info, CT configuration) is fetched
\* once per interval window: while the window of the first fetch is open, a
\* refresh call that finds the gateway's earlier response stored starts no
\* further fetch, whatever that response was.
C16_OneFetchPerWindow ==
    [][now < info_refresh_buffer_seconds
          => /\ (endpoint_results["endpoint_meters_json_results"] # None
                    /\ pc # "meters") => pc' # "meters"
             /\ (endpoint_results["endpoint_info_results"] # None
                    /\ pc # "info") => pc' # "info"]_vars

\* The inverter endpoint, when inverter detail is enabled.
InverterUrls ==
    IF get_inverters THEN {ENDPOINT_URL_PRODUCTION_INVERTERS} ELSE {}

\* C17: after classification, a poll of a production-only gateway requests
\* only /api/v1/production, and a poll of a legacy gateway only the legacy
\* /production and /home pages, apart from the device-info refresh and the
\* inverter endpoint when inverter detail is enabled.
C17_PollFetchesOfModel ==
    (running = "_update" /\ last_get # NoGet)
        => /\ endpoint_type = ENVOY_MODEL_C
                => last_get.url \in {ENDPOINT_URL_PRODUCTION_V1,
                                     ENDPOINT_URL_INFO_XML} \cup InverterUrls
           /\ endpoint_type = ENVOY_MODEL_LEGACY
                => last_get.url \in {ENDPOINT_URL_PRODUCTION, ENDPOINT_URL_HOME,
                                     ENDPOINT_URL_INFO_XML} \cup InverterUrls

\* A poll of a classified legacy gateway has had its /home page answered.
C17_LegacyHomeFetched ==
    /\ running = "_update"
    /\ endpoint_type = ENVOY_MODEL_LEGACY
    /\ last_get.url = ENDPOINT_URL_HOME

\* C17 as stated: a poll of a legacy gateway requests /production alone,
\* apart from the device-info refresh and the inverter endpoint.
C17_SingleSummaryFetch ==
    (running = "_update" /\ last_get # NoGet)
        => /\ endpoint_type = ENVOY_MODEL_C
                => last_get.url \in {ENDPOINT_URL_PRODUCTION_V1,
                                     ENDPOINT_URL_INFO_XML} \cup InverterUrls
           /\ endpoint_type = ENVOY_MODEL_LEGACY
                => last_get.url \in {ENDPOINT_URL_PRODUCTION,
                                     ENDPOINT_URL_INFO_XML} \cup InverterUrls

\* C18: grid status is given up once and for good: after has_grid_status
\* has become false no step makes it true again, so that grid_status()
\* returns null on every later call, and no poll requests home.json.
C18_GridStatusGivenUp ==
    /\ [](~has_grid_status => pc # "pc_home_json")
    /\ [][~has_grid_status => ~has_grid_status']_vars

\* A metered gateway whose home.json held no enpower.grid_status: a later
\* poll is past the place of the home.json request, flag still false.
C18_LaterPollWithoutHomeJson ==
    /\ ~has_grid_status
    /\ endpoint_type = ENVOY_MODEL_S
    /\ endpoint_results["endpoint_home_json_results"].body = "no enpower"
    /\ running = "_update"
    /\ pc \in {"p_production_v1", "info", "inverters_check", "inverters"}

\* The reading an accessor's answer came from, in half units.
ReportsJson == endpoint_results["endpoint_meters_reports_json_results"].body.json
SummaryJson == endpoint_results["endpoint_production_json_results"].body.json
C19_Source ==
    IF call.op = "consumption" THEN ReportsJson[3].cumulative.currW
    ELSE IF isProductionMeteringEnabled THEN ReportsJson[1].cumulative.currW
    ELSE SummaryJson.production[1].wNow
C19_Applies ==
    /\ call.op \in {"production", "consumption"} /\ call.phase = "None"
    /\ value # NoValue
    /\ call.op = "consumption" => isConsumptionMeteringEnabled

\* C19: for well-formed payloads of a metered gateway, production() returns
\* the integer part of the meters-reports entry 0 cumulative currW when
\* production metering is enabled and of production.json production[0].wNow
\* otherwise, and consumption() that of the total-consumption cumulative
\* currW when consumption metering is enabled; the integer is the reading
\* rounded toward zero, non-negative when the reading is.
C19_IntegerPartOfSource ==
    C19_Applies
        => /\ value.kind = "return"
           /\ C19_Source >= 0
                => /\ value.v >= 0
                   /\ value.v * HalvesPerUnit <= C19_Source
                   /\ C19_Source < (value.v + 1) * HalvesPerUnit
           /\ C19_Source <= 0
                => /\ value.v <= 0
                   /\ value.v * HalvesPerUnit >= C19_Source
                   /\ C19_Source > (value.v - 1) * HalvesPerUnit

\* production() has answered from the meters reports while production.json
\* carries another reading, and the reading had a fraction.
C19_FractionFromReports ==
    /\ call.op = "production" /\ call.phase = "None"
    /\ isProductionMeteringEnabled
    /\ ReportsJson[1].cumulative.currW = 1
    /\ SummaryJson.production[1].wNow = 2
    /\ value = Returns(0)

\* C19 as stated: the answer is a non-negative integer equal to the reading.
C19_EqualsSource ==
    C19_Applies
        => /\ value.kind = "return"
           /\ value.v >= 0
           /\ value.v * HalvesPerUnit = C19_Source

\* The phase count of the meter an accessor reads.
C20_PhaseCount ==
    IF call.op \in {"production", "daily_production_phase"}
    THEN production_meters_phase_count ELSE consumption_meters_phase_count

\* C20: asked for a phase whose index is not below the phase count of the
\* meter it reads, a phase accessor returns null and does not raise,
\* whatever the model, the capability and the snapshots are.
C20_OutsidePhaseIsNull ==
    (/\ call.op \in PhaseAccessors
     /\ value # NoValue
     /\ phase_map[call.phase] >= C20_PhaseCount)
        => value = Null

\* The find on the legacy page an accessor's answer came from.
LegacyFind ==
    LET page == endpoint_results["endpoint_production_results"].body IN
    CASE call.op = "production" -> page.current
      [] call.op = "daily_production" -> page.today
      [] call.op = "seven_days_production" -> page.week
      [] call.op = "lifetime_production" -> page.life
UnitScale(unit) ==
    CASE unit \in {"W", "Wh"} -> 1
      [] unit \in {"kW", "kWh"} -> 1000
      [] unit \in {"MW", "MWh"} -> 1000000
LegacyAnswered(ops) ==
    /\ endpoint_type = ENVOY_MODEL_LEGACY
    /\ call.op \in ops /\ call.phase = "None"
    /\ value # NoValue
    /\ LegacyFind.match

\* C21: on a legacy gateway daily_production, seven_days_production and
\* lifetime_production return the scraped number times 1 for Wh, times 1000
\* for kWh and times 1,000,000 for MWh, as an integer.
C21_EnergyScaledByUnit ==
    LegacyAnswered({"daily_production", "seven_days_production",
                    "lifetime_production"})
        => value = Returns((LegacyFind.number * UnitScale(LegacyFind.unit))
                               \div CentisPerUnit)

\* C22: on a legacy gateway production() returns the scraped number times 1
\* for W, times 1000 for kW and times 1,000,000 for MW, as an integer.
C22_PowerScaledByUnit ==
    LegacyAnswered({"production"})
        => value = Returns((LegacyFind.number * UnitScale(LegacyFind.unit))
                               \div CentisPerUnit)


\* ------------------------------------------------------------------- C23
\* C23: on a gateway that is not legacy, a metric accessor called for the
\* system value never raises, whatever the snapshots hold: absent, not
\* parsing, without the entries read, or well-formed.
C23_MetricAccessors ==
    SystemAccessors
        \ {"inverters_production", "battery_storage", "grid_status", "envoy_info"}
C23_ParseErrorsContained ==
    (/\ endpoint_type # ENVOY_MODEL_LEGACY
     /\ call.op \in C23_MetricAccessors
     /\ value.kind # "none")
        => value.kind \in {"return", "message", "null"}

\* ------------------------------------------------------------------- C24
\* C24: inverters_production and battery_storage return a result (a mapping,
\* None or the battery message) for every state of the snapshots and never
\* raise.
C24_ExtractionTolerant ==
    (call.op \in {"inverters_production", "battery_storage"} /\ value.kind # "none")
        => value.kind \in {"return", "message", "null"}

\* ------------------------------------------------------------------- C25
\* C25: envoy_info returns a mapping that holds every internal field and an
\* entry for every snapshot, and none of software, pn and metered when the
\* info snapshot is absent or is no XML.
C25_InfoUnreadable ==
    \/ Absent(endpoint_results["endpoint_info_results"])
    \/ ~endpoint_results["endpoint_info_results"].body.parses
C25_InfoAlwaysReturned ==
    (call.op = "envoy_info" /\ value.kind # "none")
        => /\ value.kind = "return"
           /\ InternalKeys \subseteq DOMAIN value.v
           /\ \A a \in SnapshotAttrs : EndpointKeys[a] \in DOMAIN value.v
           /\ C25_InfoUnreadable
                 => DOMAIN value.v \cap DOMAIN DeviceFields = {}
\* envoy_info has returned on a reader whose info snapshot is no XML.
C25_ReturnedWithoutDevice ==
    /\ call.op = "envoy_info"
    /\ value.kind = "return"
    /\ ~Absent(endpoint_results["endpoint_info_results"])
    /\ ~endpoint_results["endpoint_info_results"].body.parses

\* ------------------------------------------------------------------- C26
\* C26: an accessor call issues no request and changes no field of the
\* reader, except that grid_status clears has_grid_status when it returns
\* None.
C26_Frame ==
    UNCHANGED <<config, endpoint_type, get_inverters, password,
                serial_number_last_six, endpoint_results, fetched, meters, credential,
                refresh_times, first_req, last_get>>
C26_AccessorsReadOnlyButGridStatus ==
    [][value'.kind # value.kind
          => /\ C26_Frame
             /\ has_grid_status' # has_grid_status
                   => /\ call.op = "grid_status"
                      /\ value'.kind = "null"
                      /\ ~has_grid_status']_vars
\* grid_status has returned None on a metered gateway and the flag, set after
\* the poll, is cleared.
C26_GridStatusClearedFlag ==
    /\ call.op = "grid_status"
    /\ value.kind = "null"
    /\ endpoint_type = ENVOY_MODEL_S
    /\ ~has_grid_status
\* C26 as stated: an accessor call changes no field of the reader at all.
C26_AccessorsReadOnly ==
    [][value'.kind # value.kind => C26_Frame /\ UNCHANGED has_grid_status]_vars

\* ------------------------------------------------------------------- C27
\* C27: a system accessor of a metric the gateway cannot have (wrong model,
\* CT not installed) returns the "not available" message of its own family.
C27_FamilyMessage ==
    [op \in SystemAccessors |->
        CASE op \in {"consumption", "net_consumption", "daily_consumption",
                     "seven_days_consumption", "lifetime_net_production",
                     "lifetime_consumption", "lifetime_net_consumption"} ->
                "message_consumption_not_available"
          [] op = "pf" -> "message_pf_not_available"
          [] op = "voltage" -> "message_voltage_not_available"
          [] op = "frequency" -> "message_frequency_not_available"
          [] op = "consumption_Current" ->
                "message_current_consumption_not_available"
          [] op = "production_Current" ->
                "message_current_production_not_available"
          [] op = "battery_storage" -> "message_battery_not_available"
          [] op = "grid_status" -> "message_grid_status_not_available"
          [] OTHER -> "message_production_not_available"]
C27_Inapplicable ==
    CASE C27_FamilyMessage[call.op] = "message_consumption_not_available"
            \/ call.op \in {"pf", "voltage", "frequency", "consumption_Current"} ->
            endpoint_type # ENVOY_MODEL_S \/ ~isConsumptionMeteringEnabled
      [] call.op = "production_Current" ->
            endpoint_type # ENVOY_MODEL_S \/ ~isProductionMeteringEnabled
      [] call.op \in {"battery_storage", "grid_status"} ->
            endpoint_type # ENVOY_MODEL_S
      [] OTHER -> FALSE
C27_InapplicableIsOwnMessage ==
    (C27_Inapplicable /\ value.kind # "none")
        => /\ value.kind = "message"
           /\ value.text = C27_FamilyMessage[call.op]


\* ------------------------------------------------------------------- C28
\* C28: when a fetch of a poll raises, getData raises the same exception in
\* that step and no snapshot changes; a snapshot changes only in a step that
\* stores the response a fetch has returned, and that step changes no other
\* snapshot.
C28_FetchRaised ==
    /\ running = "_update" /\ pc \in AwaitLabels
    /\ stack = <<>> /\ ret.kind = "exc"
C28_PollStep ==
    /\ C28_FetchRaised
          => /\ pc' = "returned" /\ result' = ret.exc
             /\ UNCHANGED endpoint_results
    /\ endpoint_results' # endpoint_results
          => /\ ret.kind = "resp"
             /\ \E a \in SnapshotAttrs :
                   endpoint_results' = [endpoint_results EXCEPT ![a] = ret.resp]
C28_PartialPollKept == [][C28_PollStep]_vars
\* The device-info fetch of a poll of a production-only gateway has raised
\* after its retries, /api/v1/production of the same poll being stored.
C28_InfoRaisedAfterSummary ==
    /\ C28_FetchRaised
    /\ pc = "info"
    /\ IsHTTPError(ret.exc)
    /\ endpoint_type = ENVOY_MODEL_C
    /\ endpoint_results["endpoint_production_v1_results"] # None

\* ------------------------------------------------------------------- C29
\* C29: a reader classified as legacy has inverter detail disabled, and a
\* request to the inverter endpoint is issued only by a reader classified as
\* metered or production-only.
C29_InverterRequest ==
    last_get'.answer.kind # "none" /\ last_get'.url = ENDPOINT_URL_PRODUCTION_INVERTERS
C29_LegacyWithoutInverters ==
    /\ [](endpoint_type = ENVOY_MODEL_LEGACY => ~get_inverters)
    /\ [][C29_InverterRequest
             => endpoint_type' \in {ENVOY_MODEL_S, ENVOY_MODEL_C}]_vars
\* A legacy gateway has been polled again after its classification.
C29_LegacyPolledAgain ==
    /\ endpoint_type = ENVOY_MODEL_LEGACY
    /\ running = "_update" /\ pc = "returned" /\ result = "ok"

\* ------------------------------------------------------------------- C30
\* C30: in bearer-token mode a 401 with attempts left starts the cookie
\* refresh; the cloud login is started by the 401 handler only in the step
\* that takes a cookie refresh's report of failure, and the step that takes
\* its report of success goes to the next attempt with no login.
C30_LoginStarted ==
    /\ Len(stack') = Len(stack) + 1
    /\ stack'[Len(stack')].op = "token"
C30_EscalationStep ==
    stack # <<>> /\ Top.op = "fetch"
        => /\ (/\ last_get'.answer.kind = "resp" /\ last_get'.answer.status = 401
               /\ last_get'.depth = Len(stack)
               /\ Top.attempt < fetch_retries /\ use_enlighten_owner_token)
                 => /\ Len(stack') = Len(stack) + 2
                    /\ stack'[Len(stack) + 1].op = "refresh"
           /\ C30_LoginStarted
                 => Top.pc = "refresh" /\ ret = RetBool(FALSE, "refresh")
           /\ (Top.pc = "refresh" /\ ret = RetBool(TRUE, "refresh"))
                 => /\ stack' = SetTop([Top EXCEPT !.attempt = @ + 1, !.pc = "get"])
                    /\ UNCHANGED credential
C30_RefreshThenLogin == [][C30_EscalationStep]_vars
\* The cloud login runs for a 401 whose cookie refresh reported failure.
C30_LoginAfterFailedRefresh ==
    /\ Len(stack) >= 2
    /\ Top.op = "token"
    /\ stack[Len(stack) - 1].op = "fetch"
    /\ stack[Len(stack) - 1].pc = "token"


\* ------------------------------------------------------------------- C31
\* C31: a reader without bearer token and without HTTPS never has a cloud
\* login or a token validation in progress, and its 401 with attempts left
\* is followed by the next attempt at the same URL with the credential
\* unchanged.
C31_LocalDigest == ~use_enlighten_owner_token /\ https_flag = ""
C31_NoCloudCall ==
    C31_LocalDigest
        => /\ first_req # "login"
           /\ \A i \in 1..Len(stack) :
                 stack[i].op = "fetch" /\ stack[i].url # ENDPOINT_URL_CHECK_JWT
C31_RetryStep ==
    (/\ C31_LocalDigest
     /\ last_get'.answer.kind = "resp" /\ last_get'.answer.status = 401
     /\ last_get'.attempt < fetch_retries)
        => /\ stack' = SetTop([Top EXCEPT !.attempt = @ + 1])
           /\ UNCHANGED credential
C31_LocalModeStaysLocal == []C31_NoCloudCall /\ [][C31_RetryStep]_vars
\* A poll in local-digest mode has been answered 401 with attempts left and
\* goes on with the next attempt.
C31_Local401Retried ==
    /\ C31_LocalDigest
    /\ running \in {"detect_model", "_update"}
    /\ last_get.answer.kind = "resp" /\ last_get.answer.status = 401
    /\ stack # <<>> /\ Top.attempt = last_get.attempt + 1


\* ------------------------------------------------------------------- C32
\* C32: when the inverter request of getData is answered 401 or 404, a
\* production-only or legacy reader disables inverter detail, keeps its
\* inverter snapshot and getData returns; a metered reader's getData raises
\* HTTPStatusError, which the host turns into ConfigEntryAuthFailed.
C32_InverterRefused ==
    /\ pc = "inverters" /\ stack = <<>> /\ ret.kind = "resp"
    /\ \/ ret.resp = None
       \/ ret.resp.status \in {401, 404}
C32_RefusalStep ==
    C32_InverterRefused
        => IF endpoint_type \in {ENVOY_MODEL_C, ENVOY_MODEL_LEGACY}
           THEN /\ ~get_inverters'
                /\ pc' = "returned" /\ result' = "ok"
                /\ UNCHANGED endpoint_results
           ELSE /\ pc' = "returned" /\ result' = "HTTPStatusError"
                /\ update_failure(result') = "ConfigEntryAuthFailed"
C32_InverterRefusalHandled == [][C32_RefusalStep]_vars

\* C33: token persistence follows the dirty flag.  A step that changes the
\* token leaves the pending flag set; the Store is written only by the end of
\* a cycle that succeeded, with the token, exactly when the flag was set,
\* and that step clears the flag; the end of a failed cycle leaves token,
\* flag and Store as they were.  So whenever the flag is clear, and thus
\* after every successful cycle, the saved token is the in-memory token.
C33_CycleEnds == pc = "returned" /\ pc' = "idle"
C33_CycleSucceeded == result = "ok" /\ ~accessors_raise
C33_FlagStep ==
    /\ token' # token => store_update_pending'
    /\ store' # store => C33_CycleEnds /\ store_update_pending /\ store' = token
    /\ C33_CycleEnds /\ C33_CycleSucceeded
          => /\ store' = token' /\ ~store_update_pending'
             /\ ~store_update_pending => store' = store
    /\ C33_CycleEnds /\ ~C33_CycleSucceeded
          => UNCHANGED <<token, store_update_pending, store>>
C33_SavedIsCurrent == ~store_update_pending => store = token
C33_PersistenceFollowsFlag == []C33_SavedIsCurrent /\ [][C33_FlagStep]_vars
\* A token obtained from the cloud has been saved by a successful cycle.
C33_TokenSaved ==
    /\ pc = "idle" /\ ~token.empty
    /\ ~store_update_pending /\ store = token

\* C34: the CT meter endpoints (/ivp/meters, /ivp/meters/reports and
\* /ivp/meters/readings) are requested only of a gateway classified as
\* metered: whenever a request for one of them is in progress or has just
\* been answered, detection included, endpoint_type is the metered model.
CTMeterUrls ==
    { ENDPOINT_URL_METERS, ENDPOINT_URL_METERS_REPORTS,
      ENDPOINT_URL_METERS_READINGS }
C34_MetersOnlyOnMetered ==
    /\ \A i \in 1..Len(stack) :
          stack[i].op = "fetch" /\ stack[i].url \in CTMeterUrls
              => endpoint_type = ENVOY_MODEL_S
    /\ last_get.url \in CTMeterUrls => endpoint_type = ENVOY_MODEL_S
\* Detection has requested the CT readings of the gateway it classified.
C34_ReadingsDuringDetection ==
    /\ running = "detect_model"
    /\ last_get.url = ENDPOINT_URL_METERS_READINGS
    /\ last_get.answer.kind = "resp"

\* C35: nothing is cached beyond one poll cycle, also when the reader
\* skips production.json: at the end of every successful poll, each snapshot
\* the whole-system accessors read was stored during that poll.
C35_PollSucceeded == pc = "returned" /\ result = "ok"
C35_NothingCached == C35_PollSucceeded => snapshots_read \subseteq fetched

\* C36: a detection pass that raises records no model: when detect_model
\* ends getData with an exception, endpoint_type is still unset, and the
\* next getData runs the detection again.
C36_DetectionRaises ==
    /\ running = "detect_model"
    /\ pc \notin {"inverters_check", "inverters"}
    /\ pc' = "returned" /\ result' # "ok"
C36_RaisingStep == C36_DetectionRaises => endpoint_type' = NoModel
C36_FailedDetectionRecordsNothing == [][C36_RaisingStep]_vars

\* C37: a failed login changes nothing: when _getEnphaseToken raises because
\* the login was rejected, the token issuance was rejected or the issued
\* token is already expired, the in-memory token and the pending-save flag
\* are what they were before the login.
C37_LoginRaises ==
    /\ stack # <<>> /\ Top.op = "token" /\ Top.pc \in {"login", "issue"}
    /\ ret'.kind = "exc"
    /\ ret'.exc \in {"RuntimeError: login", "RuntimeError: token",
                     "RuntimeError: expired"}
C37_RaisingStep == C37_LoginRaises => UNCHANGED <<token, store_update_pending>>
C37_FailedLoginChangesNothing == [][C37_RaisingStep]_vars

\* C38: the CT capability is updated atomically: a refresh of the CT
\* configuration sets all five capability fields from the same response or
\* leaves all five as they were, also when it raises on a response with
\* fewer than two entries or with a missing key.
C38_AllFromResponse ==
    /\ value.kind = "return"
    /\ meters = <<value.v[1], value.v[2], value.v[3], value.v[4], value.v[5]>>
C38_AllOrNothing ==
    value.kind # "none" => C38_AllFromResponse \/ meters = call.before

\* The case of C39: a metered gateway, the CT the accessor reports on
\* enabled, the snapshot it reads well-formed, and a phase whose index is
\* below the phase count of that CT.
C39_RelevantCT ==
    CASE call.op \in {"production", "daily_production_phase"} ->
            isProductionMeteringEnabled
      [] call.op = "net_consumption" ->
            isConsumptionMeteringEnabled /\ net_consumption_meters_type
      [] OTHER -> isConsumptionMeteringEnabled
C39_Snapshot ==
    endpoint_results[
        CASE call.op \in {"production", "consumption"} ->
                "endpoint_meters_reports_json_results"
          [] call.op = "net_consumption" ->
                "endpoint_meters_readings_json_results"
          [] OTHER -> "endpoint_production_json_results"]
C39_FromSummary ==
    call.op \in {"daily_production_phase", "daily_consumption_phase"}
C39_WiredPhaseAsked ==
    /\ call.op \in PhaseAccessors
    /\ value # NoValue
    /\ endpoint_type = ENVOY_MODEL_S
    /\ C39_RelevantCT
    /\ ~Absent(C39_Snapshot) /\ C39_Snapshot.body.parses
    /\ phase_map[call.phase] < C20_PhaseCount

\* C39 as stated: in that case the accessor returns the phase's numeric
\* value and not null, for every phase count from 1 to 3.
C39_WiredPhaseIsNumeric == C39_WiredPhaseAsked => value.kind = "return"

\* C39: in that case the accessor returns the phase's numeric value when the
\* CT has two or three phases (and, for the daily values, production.json is
\* not skipped); on a CT with one phase it returns null.
C39_MultiPhaseIsNumeric ==
    C39_WiredPhaseAsked
        => IF C20_PhaseCount > 1
              /\ (C39_FromSummary => ~do_not_use_production_json)
           THEN value.kind = "return" /\ value.v \in Int
           ELSE value = Null
\* The second of two wired phases has been read, and so has the only phase
\* of a one-phase CT.
C39_SecondOfTwoRead ==
    /\ C39_WiredPhaseAsked
    /\ C20_PhaseCount = 2 /\ call.phase = "l2"
    /\ value.kind = "return"

====
